---- MODULE Spec2Model ----
(***************************************************************************)
(* NYML parsers (parsers/javascript/nyml-parser.js, the V1 grammar, and    *)
(* parsers/javascript/nyml-parser-v2.js, the V2 grammar) as a state        *)
(* machine.  A JavaScript string is a sequence of one-character strings;   *)
(* a text is the sequence of its lines (the result of text.split('\n')).   *)
(* Objects that the code reaches through references (entries, lists) live  *)
(* in a heap indexed by creation order; a container is named by the id of  *)
(* the entry or item that owns it, 0 naming the root container.            *)
(***************************************************************************)
EXTENDS Integers, Sequences, FiniteSets, TLC

VARIABLES lines, strict, pc, v2, ret2, v1, ret1, mapped, calls

vars == <<lines, strict, pc, v2, ret2, v1, ret1, mapped, calls>>

\* Longest text, in lines.
MaxLines == 3

----------------------------------------------------------------------------
(* String primitives of JavaScript, on sequences of characters.            *)

\* The whitespace String.prototype.trim removes, within the alphabet used.
IsWS(c) == c \in {" ", "\t"}

LeadWS(s) ==
  IF \A k \in 1..Len(s) : IsWS(s[k]) THEN Len(s)
  ELSE (CHOOSE k \in 1..Len(s) : ~IsWS(s[k]) /\ \A j \in 1..(k-1) : IsWS(s[j])) - 1

TrailWS(s) ==
  IF \A k \in 1..Len(s) : IsWS(s[k]) THEN Len(s)
  ELSE Len(s) - (CHOOSE k \in 1..Len(s) : ~IsWS(s[k]) /\ \A j \in (k+1)..Len(s) : IsWS(s[j]))

trimStart(s) == SubSeq(s, LeadWS(s) + 1, Len(s))

trimEnd(s) == SubSeq(s, 1, Len(s) - TrailWS(s))

trim(s) == trimEnd(trimStart(s))

\* s.indexOf(c, from): 0-based position of the first c at or after from, else -1.
indexOf(s, c, from) ==
  IF \E k \in (from+1)..Len(s) : s[k] = c
  THEN (CHOOSE k \in (from+1)..Len(s) : s[k] = c /\ \A j \in (from+1)..(k-1) : s[j] # c) - 1
  ELSE -1

\* s.slice(a, b) and s.slice(a) for 0 <= a.
slice(s, a, b) == SubSeq(s, a + 1, b)

sliceFrom(s, a) == SubSeq(s, a + 1, Len(s))

startsWith(s, c) == Len(s) > 0 /\ s[1] = c

\* pieces.join('\n')
RECURSIVE join(_)
join(pieces) ==
  IF Len(pieces) = 0 THEN <<>>
  ELSE IF Len(pieces) = 1 THEN pieces[1]
  ELSE pieces[1] \o <<"\n">> \o join(Tail(pieces))

Min(S) == CHOOSE x \in S : \A y \in S : x <= y

\* The pieces of s between its newline characters: s.split('\n').
RECURSIVE SplitNL(_)
SplitNL(s) ==
  IF \A k \in 1..Len(s) : s[k] # "\n" THEN <<s>>
  ELSE LET nl == Min({k \in 1..Len(s) : s[k] = "\n"})
       IN <<SubSeq(s, 1, nl - 1)>> \o SplitNL(SubSeq(s, nl + 1, Len(s)))

----------------------------------------------------------------------------
(* V2 parser: nyml-parser-v2.js                                            *)

leadingSpacesV2(s) ==
  IF \A k \in 1..Len(s) : s[k] = " " THEN Len(s)
  ELSE (CHOOSE k \in 1..Len(s) : s[k] # " " /\ \A j \in 1..(k-1) : s[j] = " ") - 1

\* [key, value] of a stripped line; has = FALSE stands for [null, null].
NoKeyValue == [has |-> FALSE, key |-> <<>>, value |-> <<>>]

\* parseKeyValue trimming the quoted key as it trims the unquoted one.
parseKeyValueTrimmedKey(stripped) ==
  IF Len(stripped) = 0 THEN NoKeyValue
  ELSE IF startsWith(stripped, "\"") THEN
    LET end == indexOf(stripped, "\"", 1) IN
    IF end = -1 THEN NoKeyValue
    ELSE LET rest == trimStart(sliceFrom(stripped, end + 1)) IN
         IF ~startsWith(rest, ":") THEN NoKeyValue
         ELSE [has |-> TRUE, key |-> trim(slice(stripped, 1, end)),
               value |-> trim(sliceFrom(rest, 1))]
  ELSE
    LET idx == indexOf(stripped, ":", 0) IN
    IF idx = -1 THEN NoKeyValue
    ELSE [has |-> TRUE, key |-> trim(slice(stripped, 0, idx)),
          value |-> trim(sliceFrom(stripped, idx + 1))]

\* parseKeyValue reading a line with an unmatched opening quote as a key with
\* an empty value.
parseKeyValueQuoteAsKey(stripped) ==
  IF Len(stripped) = 0 THEN NoKeyValue
  ELSE IF startsWith(stripped, "\"") THEN
    LET end == indexOf(stripped, "\"", 1) IN
    IF end = -1 THEN [has |-> TRUE, key |-> sliceFrom(stripped, 1), value |-> <<>>]
    ELSE LET rest == trimStart(sliceFrom(stripped, end + 1)) IN
         IF ~startsWith(rest, ":") THEN NoKeyValue
         ELSE [has |-> TRUE, key |-> slice(stripped, 1, end),
               value |-> trim(sliceFrom(rest, 1))]
  ELSE
    LET idx == indexOf(stripped, ":", 0) IN
    IF idx = -1 THEN NoKeyValue
    ELSE [has |-> TRUE, key |-> trim(slice(stripped, 0, idx)),
          value |-> trim(sliceFrom(stripped, idx + 1))]

parseKeyValue(stripped) ==
  IF Len(stripped) = 0 THEN NoKeyValue
  ELSE IF startsWith(stripped, "\"") THEN
    LET end == indexOf(stripped, "\"", 1) IN
    IF end = -1 THEN NoKeyValue
    ELSE LET rest == trimStart(sliceFrom(stripped, end + 1)) IN
         IF ~startsWith(rest, ":") THEN NoKeyValue
         ELSE [has |-> TRUE, key |-> slice(stripped, 1, end),
               value |-> trim(sliceFrom(rest, 1))]
  ELSE
    LET idx == indexOf(stripped, ":", 0) IN
    IF idx = -1 THEN NoKeyValue
    ELSE [has |-> TRUE, key |-> trim(slice(stripped, 0, idx)),
          value |-> trim(sliceFrom(stripped, idx + 1))]

\* collectEnd ending the block at a blank line.
RECURSIVE collectEndAtBlank(_, _, _)
collectEndAtBlank(ls, i, baseIndent) ==
  IF i >= Len(ls) THEN i
  ELSE IF trim(ls[i + 1]) = <<>> THEN i
  ELSE IF leadingSpacesV2(ls[i + 1]) <= baseIndent THEN i
  ELSE collectEndAtBlank(ls, i + 1, baseIndent)

\* Index (0-based) at which the collecting loop of collectMultiline stops.
RECURSIVE collectEnd(_, _, _)
collectEnd(ls, i, baseIndent) ==
  IF i >= Len(ls) THEN i
  ELSE IF trim(ls[i + 1]) = <<>> THEN collectEnd(ls, i + 1, baseIndent)
  ELSE IF leadingSpacesV2(ls[i + 1]) <= baseIndent THEN i
  ELSE collectEnd(ls, i + 1, baseIndent)

\* The while loop that collapses multiple trailing blank pieces.
RECURSIVE collapseTrailing(_)
collapseTrailing(pieces) ==
  IF Len(pieces) >= 2 /\ pieces[Len(pieces)] = <<>> /\ pieces[Len(pieces) - 1] = <<>>
  THEN collapseTrailing(SubSeq(pieces, 1, Len(pieces) - 1))
  ELSE pieces

\* collectMultiline appending the final newline even after a blank last line.
collectMultilineAlwaysNewline(ls, startIdx, baseIndent) ==
  LET nextIdx  == collectEnd(ls, startIdx + 1, baseIndent)
      rawLines == [k \in 1..(nextIdx - startIdx - 1) |->
                     IF trim(ls[startIdx + 1 + k]) = <<>> THEN <<>> ELSE ls[startIdx + 1 + k]]
      nonblank == {k \in 1..Len(rawLines) : trim(rawLines[k]) # <<>>}
      minIndent == IF nonblank # {} THEN Min({leadingSpacesV2(rawLines[k]) : k \in nonblank})
                   ELSE 0
      dedented == [k \in 1..Len(rawLines) |->
                     IF trim(rawLines[k]) = <<>> THEN <<>> ELSE sliceFrom(rawLines[k], minIndent)]
      pieces   == collapseTrailing(dedented)
      content  == IF Len(pieces) > 0 THEN join(pieces) \o <<"\n">> ELSE <<>>
  IN [content |-> content, nextIdx |-> nextIdx]

\* collectMultiline dedenting by the indent of the first non-blank line of the
\* block instead of the least indent.
collectMultilineFirstIndent(ls, startIdx, baseIndent) ==
  LET nextIdx  == collectEnd(ls, startIdx + 1, baseIndent)
      rawLines == [k \in 1..(nextIdx - startIdx - 1) |->
                     IF trim(ls[startIdx + 1 + k]) = <<>> THEN <<>> ELSE ls[startIdx + 1 + k]]
      nonblank == {k \in 1..Len(rawLines) : trim(rawLines[k]) # <<>>}
      minIndent == IF nonblank # {} THEN leadingSpacesV2(rawLines[Min(nonblank)]) ELSE 0
      dedented == [k \in 1..Len(rawLines) |->
                     IF trim(rawLines[k]) = <<>> THEN <<>> ELSE sliceFrom(rawLines[k], minIndent)]
      pieces   == collapseTrailing(dedented)
      content  == IF Len(pieces) > 0 /\ pieces[Len(pieces)] = <<>> THEN join(pieces)
                  ELSE IF Len(pieces) > 0 THEN join(pieces) \o <<"\n">> ELSE <<>>
  IN [content |-> content, nextIdx |-> nextIdx]

collectMultiline(ls, startIdx, baseIndent) ==
  LET nextIdx  == collectEnd(ls, startIdx + 1, baseIndent)
      rawLines == [k \in 1..(nextIdx - startIdx - 1) |->
                     IF trim(ls[startIdx + 1 + k]) = <<>> THEN <<>> ELSE ls[startIdx + 1 + k]]
      nonblank == {k \in 1..Len(rawLines) : trim(rawLines[k]) # <<>>}
      minIndent == IF nonblank # {} THEN Min({leadingSpacesV2(rawLines[k]) : k \in nonblank})
                   ELSE 0
      dedented == [k \in 1..Len(rawLines) |->
                     IF trim(rawLines[k]) = <<>> THEN <<>> ELSE sliceFrom(rawLines[k], minIndent)]
      pieces   == collapseTrailing(dedented)
      content  == IF Len(pieces) > 0 /\ pieces[Len(pieces)] = <<>> THEN join(pieces)
                  ELSE IF Len(pieces) > 0 THEN join(pieces) \o <<"\n">> ELSE <<>>
  IN [content |-> content, nextIdx |-> nextIdx]

\* Items of the V2 heap.  t = "plain": a plain string (text); t = "str": {key: text};
\* t = "list": {key: list}, list holding the ids of the items pushed to it.
PlainItem(text) == [t |-> "plain", key |-> <<>>, text |-> text, list |-> <<>>]

StrItem(key, text) == [t |-> "str", key |-> key, text |-> text, list |-> <<>>]

\* ListItem coercing the value of the key to a scalar empty string.
ListItemAsScalar(key) == [t |-> "str", key |-> key, text |-> <<>>, list |-> <<>>]

ListItem(key) == [t |-> "list", key |-> key, text |-> <<>>, list |-> <<>>]

\* Container c of the V2 heap: the result list (0) or the list of item c.
containerV2(st, c) == IF c = 0 THEN st.root ELSE st.items[c].list

\* pushV2 merging duplicates: a keyed item whose key an item of the list already
\* has takes that item's place instead of being appended.
pushV2Merging(st, c, item) ==
  LET id == Len(st.items) + 1
      withItem == Append(st.items, item)
      sibs == containerV2(st, c)
      same == {k \in 1..Len(sibs) :
                 item.t # "plain" /\ st.items[sibs[k]].t # "plain"
                 /\ st.items[sibs[k]].key = item.key}
      put  == IF same = {} THEN Append(sibs, id)
              ELSE [k \in 1..Len(sibs) |-> IF k \in same THEN id ELSE sibs[k]]
  IN [st EXCEPT
        !.items = IF c = 0 THEN withItem ELSE [withItem EXCEPT ![c].list = put],
        !.root  = IF c = 0 THEN put ELSE @,
        !.src   = Append(@, st.i + 1)]

\* parent.push(item), parent being container c (0: result).  src is history: the
\* 1-based number of the line each item was made from.
pushV2(st, c, item) ==
  LET id == Len(st.items) + 1
      withItem == Append(st.items, item)
  IN [st EXCEPT
        !.items = IF c = 0 THEN withItem
                  ELSE [withItem EXCEPT ![c].list = Append(@, id)],
        !.root  = IF c = 0 THEN Append(@, id) ELSE @,
        !.src   = Append(@, st.i + 1)]

\* popV2 comparing with < where the code compares with <=.
RECURSIVE popV2Strict(_, _)
popV2Strict(stack, indent) ==
  IF Len(stack) > 1 /\ indent < stack[Len(stack)].indent
  THEN popV2Strict(SubSeq(stack, 1, Len(stack) - 1), indent)
  ELSE stack

\* while (stack.length > 1 && indent <= stack[stack.length - 1][1]) stack.pop();
RECURSIVE popV2(_, _)
popV2(stack, indent) ==
  IF Len(stack) > 1 /\ indent <= stack[Len(stack)].indent
  THEN popV2(SubSeq(stack, 1, Len(stack) - 1), indent)
  ELSE stack

InitV2 == [i |-> 0, items |-> <<>>, root |-> <<>>, src |-> <<>>,
           stack |-> <<[c |-> 0, indent |-> -1]>>]

\* plainLine keeping plain strings at the root as well.
plainLineKeptAtRoot(st, stripped) ==
  [pushV2(st, st.stack[Len(st.stack)].c, PlainItem(stripped)) EXCEPT !.i = @ + 1]

\* A line without a key (key === null): a plain string inside a multi-value
\* list, ignored at the root.  st holds the stack already popped.
plainLine(st, stripped) ==
  IF Len(st.stack) > 1
  THEN [pushV2(st, st.stack[Len(st.stack)].c, PlainItem(stripped)) EXCEPT !.i = @ + 1]
  ELSE [st EXCEPT !.i = @ + 1]

\* keyedLine pushing the frame of a multi-value key one column to the left of
\* the key.
keyedLineFrameLeft(st, ls, indent, key, value) ==
  LET parent == st.stack[Len(st.stack)].c
  IN IF value = <<"|">> THEN
       LET cm == collectMultiline(ls, st.i, indent)
       IN [pushV2(st, parent, StrItem(key, cm.content)) EXCEPT !.i = cm.nextIdx]
     ELSE IF value = <<>> THEN
       LET pushed == pushV2(st, parent, ListItem(key))
       IN [pushed EXCEPT !.i = @ + 1,
                         !.stack = Append(@, [c |-> Len(pushed.items), indent |-> indent - 1])]
     ELSE [pushV2(st, parent, StrItem(key, value)) EXCEPT !.i = @ + 1]

\* A line with a key.  st holds the stack already popped.
keyedLine(st, ls, indent, key, value) ==
  LET parent == st.stack[Len(st.stack)].c
  IN IF value = <<"|">> THEN
       LET cm == collectMultiline(ls, st.i, indent)
       IN [pushV2(st, parent, StrItem(key, cm.content)) EXCEPT !.i = cm.nextIdx]
     ELSE IF value = <<>> THEN
       LET pushed == pushV2(st, parent, ListItem(key))
       IN [pushed EXCEPT !.i = @ + 1,
                         !.stack = Append(@, [c |-> Len(pushed.items), indent |-> indent])]
     ELSE [pushV2(st, parent, StrItem(key, value)) EXCEPT !.i = @ + 1]

\* stepV2 skipping the lines that start with #, as V1 skips its comments.
stepV2SkippingHash(st, ls) ==
  LET line     == ls[st.i + 1]
      stripped == trim(line)
  IN IF Len(stripped) = 0 \/ startsWith(stripped, "#") THEN [st EXCEPT !.i = @ + 1]
     ELSE
       LET indent == leadingSpacesV2(line)
           popped == [st EXCEPT !.stack = popV2(@, indent)]
           kv     == parseKeyValue(stripped)
       IN IF ~kv.has THEN plainLine(popped, stripped)
          ELSE keyedLine(popped, ls, indent, kv.key, kv.value)

\* stepV2 ending every open multi-value list at a blank line.
stepV2BlankEndsList(st, ls) ==
  LET line     == ls[st.i + 1]
      stripped == trim(line)
  IN IF Len(stripped) = 0
     THEN [st EXCEPT !.i = @ + 1, !.stack = SubSeq(@, 1, 1)]
     ELSE
       LET indent == leadingSpacesV2(line)
           popped == [st EXCEPT !.stack = popV2(@, indent)]
           kv     == parseKeyValue(stripped)
       IN IF ~kv.has THEN plainLine(popped, stripped)
          ELSE keyedLine(popped, ls, indent, kv.key, kv.value)

\* stepV2 not moving past a blank line.
stepV2StuckOnBlank(st, ls) ==
  LET line     == ls[st.i + 1]
      stripped == trim(line)
  IN IF Len(stripped) = 0 THEN st
     ELSE
       LET indent == leadingSpacesV2(line)
           popped == [st EXCEPT !.stack = popV2(@, indent)]
           kv     == parseKeyValue(stripped)
       IN IF ~kv.has THEN plainLine(popped, stripped)
          ELSE keyedLine(popped, ls, indent, kv.key, kv.value)

\* stepV2 emptying the stack at a blank line.
stepV2BlankClearsStack(st, ls) ==
  LET line     == ls[st.i + 1]
      stripped == trim(line)
  IN IF Len(stripped) = 0 THEN [st EXCEPT !.i = @ + 1, !.stack = <<>>]
     ELSE
       LET indent == leadingSpacesV2(line)
           popped == [st EXCEPT !.stack = popV2(@, indent)]
           kv     == parseKeyValue(stripped)
       IN IF ~kv.has THEN plainLine(popped, stripped)
          ELSE keyedLine(popped, ls, indent, kv.key, kv.value)

\* One iteration of the main loop of parseNymlV2, on line ls[st.i + 1].
stepV2(st, ls) ==
  LET line     == ls[st.i + 1]
      stripped == trim(line)
  IN IF Len(stripped) = 0 THEN [st EXCEPT !.i = @ + 1]
     ELSE
       LET indent == leadingSpacesV2(line)
           popped == [st EXCEPT !.stack = popV2(@, indent)]
           kv     == parseKeyValue(stripped)
       IN IF ~kv.has THEN plainLine(popped, stripped)
          ELSE keyedLine(popped, ls, indent, kv.key, kv.value)

\* The while loop of parseNymlV2 run from state st to the end of the text.
RECURSIVE runV2(_, _)
runV2(st, ls) == IF st.i >= Len(ls) THEN st ELSE runV2(stepV2(st, ls), ls)

\* The value a list of item ids denotes: the nested list parseNymlV2 returns.
RECURSIVE listValue(_, _)
listValue(items, ids) ==
  [k \in 1..Len(ids) |->
     LET it == items[ids[k]]
     IN [it EXCEPT !.list = listValue(items, it.list)]]

\* s holds the character c: s.includes(c).
includes(s, c) == \E k \in 1..Len(s) : s[k] = c

\* " ".repeat(n)
spaces(n) == [k \in 1..n |-> " "]

\* The concatenation of the sequences of seqs.
RECURSIVE concat(_)
concat(seqs) == IF Len(seqs) = 0 THEN <<>> ELSE seqs[1] \o concat(Tail(seqs))

\* serializeNymlV2(data, indent): the NYML text of a V2 list, as one string.
\* An item pushes one line, a key with a list its header and the text of the
\* list (one string, empty for an empty list), a value with a newline the
\* header key: | and its lines, less one trailing newline, indented by two.
RECURSIVE serializeNymlV2(_, _)
serializeNymlV2(data, indent) ==
  LET prefix == spaces(indent)
      pushed(item) ==
        IF item.t = "plain" THEN <<prefix \o item.text>>
        ELSE LET quotedKey == IF includes(item.key, ":")
                              THEN <<"\"">> \o item.key \o <<"\"">>
                              ELSE item.key
             IN IF item.t = "list"
                THEN <<prefix \o quotedKey \o <<":">>,
                       serializeNymlV2(item.list, indent + 2)>>
                ELSE IF includes(item.text, "\n")
                THEN LET value == item.text
                         cut   == IF value[Len(value)] = "\n"
                                  THEN SubSeq(value, 1, Len(value) - 1) ELSE value
                         vs    == SplitNL(cut)
                     IN <<prefix \o quotedKey \o <<":", " ", "|">>>>
                          \o [k \in 1..Len(vs) |-> prefix \o <<" ", " ">> \o vs[k]]
                ELSE <<prefix \o quotedKey \o <<":", " ">> \o item.text>>
  IN join(concat([k \in 1..Len(data) |-> pushed(data[k])]))

----------------------------------------------------------------------------
(* V1 parser: nyml-parser.js                                               *)

leadingSpaces(s) == Len(s) - Len(trimStart(s))

\* closeMultiline removing the indentation of every line altogether.
closeMultilineFlat(rawLines) ==
  LET dedented  == [k \in 1..Len(rawLines) |->
                      IF trim(rawLines[k]) = <<>> THEN <<>> ELSE trimStart(rawLines[k])]
      pieces    == collapseTrailing(dedented)
  IN IF Len(pieces) > 0 /\ pieces[Len(pieces)] = <<>> THEN join(pieces)
     ELSE join(pieces) \o <<"\n">>

\* Closing a multiline block: the content computed from multiline.rawLines.
closeMultiline(rawLines) ==
  LET nonblank  == {k \in 1..Len(rawLines) : trim(rawLines[k]) # <<>>}
      minIndent == IF nonblank # {} THEN Min({leadingSpaces(rawLines[k]) : k \in nonblank})
                   ELSE 0
      dedented  == [k \in 1..Len(rawLines) |->
                      IF trim(rawLines[k]) = <<>> THEN <<>> ELSE sliceFrom(rawLines[k], minIndent)]
      pieces    == collapseTrailing(dedented)
  IN IF Len(pieces) > 0 /\ pieces[Len(pieces)] = <<>> THEN join(pieces)
     ELSE join(pieces) \o <<"\n">>

NoMultiline == [open |-> FALSE, entry |-> 0, indent |-> 0, rawLines |-> <<>>]

NoError == [code |-> "", line |-> 0]

\* entry.value = content; multiline = null
assignMultiline(st) ==
  [st EXCEPT !.ents[st.multiline.entry].has_value = TRUE,
             !.ents[st.multiline.entry].value = closeMultiline(st.multiline.rawLines),
             !.multiline = NoMultiline]

\* popV1 popping the frames of equal indent as well, the root frame excepted.
RECURSIVE popV1Eager(_, _)
popV1Eager(stack, indent) ==
  IF Len(stack) > 1 /\ indent <= stack[Len(stack)].indent
  THEN popV1Eager(SubSeq(stack, 1, Len(stack) - 1), indent)
  ELSE stack

\* while (stack.length > 0 && indent < stack[stack.length - 1][1]) stack.pop();
RECURSIVE popV1(_, _)
popV1(stack, indent) ==
  IF Len(stack) > 0 /\ indent < stack[Len(stack)].indent
  THEN popV1(SubSeq(stack, 1, Len(stack) - 1), indent)
  ELSE stack

\* 0-based position of the last c of s, else -1.
lastIndexOf(s, c) ==
  IF \E k \in 1..Len(s) : s[k] = c THEN (CHOOSE k \in 1..Len(s) : s[k] = c /\ \A j \in (k+1)..Len(s) : s[j] # c) - 1
  ELSE -1

\* splitKeyValue splitting an unquoted line at its last colon.
splitKeyValueLastColon(raw, stripped) ==
  IF startsWith(stripped, "\"") THEN
    LET end == indexOf(stripped, "\"", 1) IN
    IF end = -1 THEN [code |-> "UNMATCHED_QUOTE", key |-> <<>>, valuePart |-> <<>>]
    ELSE LET rest == trimStart(sliceFrom(stripped, end + 1)) IN
         IF ~startsWith(rest, ":")
         THEN [code |-> "MISSING_COLON", key |-> <<>>, valuePart |-> <<>>]
         ELSE [code |-> "", key |-> slice(stripped, 1, end),
               valuePart |-> trim(sliceFrom(rest, 1))]
  ELSE
    LET idx == lastIndexOf(raw, ":") IN
    IF idx = -1 THEN [code |-> "MISSING_COLON", key |-> <<>>, valuePart |-> <<>>]
    ELSE [code |-> "", key |-> trim(slice(raw, 0, idx)),
          valuePart |-> trim(sliceFrom(raw, idx + 1))]

\* splitKeyValue raising MISSING_COLON for an unmatched quote as well.
splitKeyValueOneCode(raw, stripped) ==
  IF startsWith(stripped, "\"") THEN
    LET end == indexOf(stripped, "\"", 1) IN
    IF end = -1 THEN [code |-> "MISSING_COLON", key |-> <<>>, valuePart |-> <<>>]
    ELSE LET rest == trimStart(sliceFrom(stripped, end + 1)) IN
         IF ~startsWith(rest, ":")
         THEN [code |-> "MISSING_COLON", key |-> <<>>, valuePart |-> <<>>]
         ELSE [code |-> "", key |-> slice(stripped, 1, end),
               valuePart |-> trim(sliceFrom(rest, 1))]
  ELSE
    LET idx == indexOf(raw, ":", 0) IN
    IF idx = -1 THEN [code |-> "MISSING_COLON", key |-> <<>>, valuePart |-> <<>>]
    ELSE [code |-> "", key |-> trim(slice(raw, 0, idx)),
          valuePart |-> trim(sliceFrom(raw, idx + 1))]

\* Key and value part of a content line; code # "" stands for the ParseError thrown.
splitKeyValue(raw, stripped) ==
  IF startsWith(stripped, "\"") THEN
    LET end == indexOf(stripped, "\"", 1) IN
    IF end = -1 THEN [code |-> "UNMATCHED_QUOTE", key |-> <<>>, valuePart |-> <<>>]
    ELSE LET rest == trimStart(sliceFrom(stripped, end + 1)) IN
         IF ~startsWith(rest, ":")
         THEN [code |-> "MISSING_COLON", key |-> <<>>, valuePart |-> <<>>]
         ELSE [code |-> "", key |-> slice(stripped, 1, end),
               valuePart |-> trim(sliceFrom(rest, 1))]
  ELSE
    LET idx == indexOf(raw, ":", 0) IN
    IF idx = -1 THEN [code |-> "MISSING_COLON", key |-> <<>>, valuePart |-> <<>>]
    ELSE [code |-> "", key |-> trim(slice(raw, 0, idx)),
          valuePart |-> trim(sliceFrom(raw, idx + 1))]

\* Container c of the V1 heap: rootEntries (0) or the children of entry c.
containerV1(st, c) == IF c = 0 THEN st.root ELSE st.ents[c].children

\* pushEntry merging duplicates: an entry whose key a sibling already has takes
\* that sibling's place in the container instead of being appended.
pushEntryMerging(st, c, entry) ==
  LET id == Len(st.ents) + 1
      withEntry == Append(st.ents, entry)
      sibs == containerV1(st, c)
      same == {k \in 1..Len(sibs) : st.ents[sibs[k]].key = entry.key}
      put  == IF same = {} THEN Append(sibs, id)
              ELSE [k \in 1..Len(sibs) |-> IF k \in same THEN id ELSE sibs[k]]
  IN [st EXCEPT
        !.ents = IF c = 0 THEN withEntry ELSE [withEntry EXCEPT ![c].children = put],
        !.root = IF c = 0 THEN put ELSE @]

\* parentEntries.push(entry), parentEntries being container c (0: rootEntries).
pushEntry(st, c, entry) ==
  LET id == Len(st.ents) + 1
      withEntry == Append(st.ents, entry)
  IN [st EXCEPT
        !.ents = IF c = 0 THEN withEntry
                 ELSE [withEntry EXCEPT ![c].children = Append(@, id)],
        !.root = IF c = 0 THEN Append(@, id) ELSE @]

\* A line that is not collected into a multiline block (the loop body from
\* "Not in multiline state" on).
contentLine(st, raw, indent) ==
  IF trim(raw) = <<>> THEN [st EXCEPT !.i = @ + 1]
  ELSE
    LET stripped == trimStart(raw) IN
    IF startsWith(stripped, "#") THEN [st EXCEPT !.i = @ + 1]
    ELSE
      LET stack  == popV1(st.stack, indent)
          parent == stack[Len(stack)].c
          kv     == splitKeyValue(raw, stripped)
      IN IF kv.code # ""
         THEN [st EXCEPT !.stack = stack, !.status = "error",
                         !.err = [code |-> kv.code, line |-> st.i + 1]]
         ELSE
           LET entry  == [key |-> kv.key, quoted_key |-> startsWith(stripped, "\""),
                          line |-> st.i + 1, indent |-> indent, raw |-> raw,
                          has_value |-> FALSE, value |-> <<>>,
                          has_children |-> FALSE, children |-> <<>>]
               pushed == pushEntry([st EXCEPT !.stack = stack], parent, entry)
               id     == Len(pushed.ents)
           IN IF kv.valuePart = <<"|">>
              THEN [pushed EXCEPT !.i = @ + 1,
                                  !.multiline = [open |-> TRUE, entry |-> id,
                                                 indent |-> indent, rawLines |-> <<>>]]
              ELSE IF kv.valuePart = <<>>
              THEN [pushed EXCEPT !.i = @ + 1,
                                  !.ents[id].has_children = TRUE,
                                  !.stack = Append(stack, [c |-> id, indent |-> indent + 1])]
              ELSE [pushed EXCEPT !.i = @ + 1,
                                  !.ents[id].has_value = TRUE,
                                  !.ents[id].value = kv.valuePart]

InitV1 == [i |-> 0, ents |-> <<>>, root |-> <<>>,
           stack |-> <<[c |-> 0, indent |-> 0]>>,
           multiline |-> NoMultiline, status |-> "run", err |-> NoError]

\* stepV1 dropping, inside a multiline block, the lines that start with #.
stepV1HashInBlockDropped(st, ls) ==
  LET raw    == ls[st.i + 1]
      indent == leadingSpaces(raw)
  IN IF st.multiline.open /\ trim(raw) = <<>>
     THEN [st EXCEPT !.i = @ + 1, !.multiline.rawLines = Append(@, <<>>)]
     ELSE IF st.multiline.open /\ indent > st.multiline.indent
     THEN IF startsWith(trimStart(raw), "#") THEN [st EXCEPT !.i = @ + 1]
          ELSE [st EXCEPT !.i = @ + 1, !.multiline.rawLines = Append(@, raw)]
     ELSE IF st.multiline.open
     THEN contentLine(assignMultiline(st), raw, indent)
     ELSE contentLine(st, raw, indent)

\* stepV1 popping the indentation stack for a comment line as for a content
\* line.
stepV1CommentPops(st, ls) ==
  LET raw    == ls[st.i + 1]
      indent == leadingSpaces(raw)
      after  == IF st.multiline.open /\ trim(raw) = <<>>
                THEN [st EXCEPT !.i = @ + 1, !.multiline.rawLines = Append(@, <<>>)]
                ELSE IF st.multiline.open /\ indent > st.multiline.indent
                THEN [st EXCEPT !.i = @ + 1, !.multiline.rawLines = Append(@, raw)]
                ELSE IF st.multiline.open
                THEN contentLine(assignMultiline(st), raw, indent)
                ELSE contentLine(st, raw, indent)
  IN IF ~st.multiline.open /\ startsWith(trimStart(raw), "#")
     THEN [after EXCEPT !.stack = popV1(@, indent)]
     ELSE after

\* stepV1 reading a more-indented line of an open block that holds a colon as
\* a key line, the block staying open.
stepV1KeyInBlock(st, ls) ==
  LET raw    == ls[st.i + 1]
      indent == leadingSpaces(raw)
  IN IF st.multiline.open /\ trim(raw) = <<>>
     THEN [st EXCEPT !.i = @ + 1, !.multiline.rawLines = Append(@, <<>>)]
     ELSE IF st.multiline.open /\ indent > st.multiline.indent
     THEN IF \E k \in 1..Len(raw) : raw[k] = ":"
          THEN [contentLine([st EXCEPT !.multiline = NoMultiline], raw, indent)
                  EXCEPT !.multiline = st.multiline]
          ELSE [st EXCEPT !.i = @ + 1, !.multiline.rawLines = Append(@, raw)]
     ELSE IF st.multiline.open
     THEN contentLine(assignMultiline(st), raw, indent)
     ELSE contentLine(st, raw, indent)

\* stepV1 numbering the lines from 0 in the ParseError it raises.
stepV1ZeroBased(st, ls) ==
  LET raw    == ls[st.i + 1]
      indent == leadingSpaces(raw)
      after  == IF st.multiline.open /\ trim(raw) = <<>>
                THEN [st EXCEPT !.i = @ + 1, !.multiline.rawLines = Append(@, <<>>)]
                ELSE IF st.multiline.open /\ indent > st.multiline.indent
                THEN [st EXCEPT !.i = @ + 1, !.multiline.rawLines = Append(@, raw)]
                ELSE IF st.multiline.open
                THEN contentLine(assignMultiline(st), raw, indent)
                ELSE contentLine(st, raw, indent)
  IN IF after.status = "error" THEN [after EXCEPT !.err.line = @ - 1] ELSE after

\* One iteration of the for loop of parseNyml, on line ls[st.i + 1].
stepV1(st, ls) ==
  LET raw    == ls[st.i + 1]
      indent == leadingSpaces(raw)
  IN IF st.multiline.open /\ trim(raw) = <<>>
     THEN [st EXCEPT !.i = @ + 1, !.multiline.rawLines = Append(@, <<>>)]
     ELSE IF st.multiline.open /\ indent > st.multiline.indent
     THEN [st EXCEPT !.i = @ + 1, !.multiline.rawLines = Append(@, raw)]
     ELSE IF st.multiline.open
     THEN contentLine(assignMultiline(st), raw, indent)
     ELSE contentLine(st, raw, indent)

\* The for loop of parseNyml run from state st to the end of the text or to
\* the first ParseError.
RECURSIVE runV1(_, _)
runV1(st, ls) ==
  IF st.status = "error" \/ st.i >= Len(ls) THEN st ELSE runV1(stepV1(st, ls), ls)

\* closeAtEof giving the block left open the lines as collected, not dedented.
closeAtEofNoDedent(st) ==
  IF st.multiline.open
  THEN [st EXCEPT !.ents[st.multiline.entry].has_value = TRUE,
                  !.ents[st.multiline.entry].value = join(st.multiline.rawLines) \o <<"\n">>,
                  !.multiline = NoMultiline]
  ELSE st

\* closeAtEof dropping the block open at the end of the text without assigning
\* the value of its entry.
closeAtEofDropped(st) == [st EXCEPT !.multiline = NoMultiline]

\* After the loop: close a multiline block still open at EOF.
closeAtEof(st) == IF st.multiline.open THEN assignMultiline(st) ELSE st

\* The nested entries a list of entry ids denotes (document.entries, e.children).
RECURSIVE entriesValue(_, _)
entriesValue(ents, ids) ==
  [k \in 1..Len(ids) |->
     LET e == ents[ids[k]]
     IN [e EXCEPT !.children = entriesValue(ents, e.children)]]

\* Values of a mapping: a string, a nested mapping (a function on its keys), or,
\* under strategy 'all', an array of values.
StrValue(s) == [t |-> "str", s |-> s, m |-> <<>>, a |-> <<>>]

MapValue(m) == [t |-> "map", s |-> <<>>, m |-> m, a |-> <<>>]

ArrValue(a) == [t |-> "arr", s |-> <<>>, m |-> <<>>, a |-> a]

\* result[key] = value
setKey(result, key, value) ==
  [k \in (DOMAIN result) \cup {key} |-> IF k = key THEN value ELSE result[k]]

\* e.value == null ? '' : e.value
valueOrEmpty(e) == IF e.has_value THEN e.value ELSE <<>>

\* entriesToMapping, the mapping parseNyml returns by default; the loop runs
\* over entries[k..].
RECURSIVE entriesToMappingFrom(_, _, _)
entriesToMappingFrom(entries, k, result) ==
  IF k > Len(entries) THEN result
  ELSE LET e == entries[k]
           value == IF e.has_children
                    THEN MapValue(entriesToMappingFrom(e.children, 1, <<>>))
                    ELSE StrValue(valueOrEmpty(e))
       IN entriesToMappingFrom(entries, k + 1, setKey(result, e.key, value))

\* entriesToMapping keeping the first entry of a key, at the top level.
entriesToMappingFirstWins(entries) ==
  entriesToMappingFrom(
    [k \in 1..Len(entries) |-> entries[Len(entries) + 1 - k]], 1, <<>>)

entriesToMapping(entries) == entriesToMappingFrom(entries, 1, <<>>)

\* collapseEntry with the branches of 'first' and of 'last' exchanged.
collapseEntrySwapped(result, key, val, strategy) ==
  IF strategy = "all"
  THEN LET had == IF key \in DOMAIN result THEN result[key].a ELSE <<>>
       IN setKey(result, key, ArrValue(Append(had, val)))
  ELSE IF strategy = "first"
  THEN setKey(result, key, val)
  ELSE IF key \in DOMAIN result THEN result ELSE setKey(result, key, val)

\* collapseEntry flattening under 'all': the first value of a key is stored bare
\* and becomes an array only when a second one arrives.
collapseEntryFlatten(result, key, val, strategy) ==
  IF strategy = "all"
  THEN IF key \notin DOMAIN result THEN setKey(result, key, val)
       ELSE IF result[key].t = "arr"
       THEN setKey(result, key, ArrValue(Append(result[key].a, val)))
       ELSE setKey(result, key, ArrValue(<<result[key], val>>))
  ELSE IF strategy = "first"
  THEN IF key \in DOMAIN result THEN result ELSE setKey(result, key, val)
  ELSE setKey(result, key, val)

\* The body of the loop of toMapping for one entry.
collapseEntry(result, key, val, strategy) ==
  IF strategy = "all"
  THEN LET had == IF key \in DOMAIN result THEN result[key].a ELSE <<>>
       IN setKey(result, key, ArrValue(Append(had, val)))
  ELSE IF strategy = "first"
  THEN IF key \in DOMAIN result THEN result ELSE setKey(result, key, val)
  ELSE setKey(result, key, val)

RECURSIVE toMappingFrom(_, _, _, _)
toMappingFrom(entries, strategy, k, result) ==
  IF k > Len(entries) THEN result
  ELSE LET e == entries[k]
           val == IF e.has_children
                  THEN MapValue(toMappingFrom(e.children, strategy, 1, <<>>))
                  ELSE StrValue(valueOrEmpty(e))
       IN toMappingFrom(entries, strategy, k + 1, collapseEntry(result, e.key, val, strategy))

\* toMapping(document, strategy); strategy "undefined" is the omitted argument.
toMapping(entries, strategy) ==
  toMappingFrom(entries, IF strategy = "undefined" THEN "last" ELSE strategy, 1, <<>>)

\* null, or a string: what getFirst and getLast return.
Null == [has |-> FALSE, value |-> <<>>]

Some(value) == [has |-> TRUE, value |-> value]

\* getAll(document, key), on the entries of the document: the loop runs over
\* document.entries and pushes e.value == null ? '' : e.value for each entry
\* of the key.
RECURSIVE getAll(_, _)
getAll(entries, key) ==
  IF Len(entries) = 0 THEN <<>>
  ELSE (IF entries[1].key = key THEN <<valueOrEmpty(entries[1])>> ELSE <<>>)
         \o getAll(Tail(entries), key)

\* vals[0] === undefined ? null : vals[0]
getFirst(entries, key) ==
  LET vals == getAll(entries, key)
  IN IF Len(vals) = 0 THEN Null ELSE Some(vals[1])

\* vals.length ? vals[vals.length - 1] : null
getLast(entries, key) ==
  LET vals == getAll(entries, key)
  IN IF Len(vals) > 0 THEN Some(vals[Len(vals)]) ELSE Null

----------------------------------------------------------------------------
(* The texts parsed, and the run: the text is parsed by parseNymlV2, then   *)
(* by parseNyml with or without asEntries, and a returned document is       *)
(* collapsed by toMapping under some strategy.                              *)

LineSet ==
  { <<"a", ":", " ", "1">>,                    \* a: 1
    <<"b", ":", " ", "1">>,                    \* b: 1
    <<"b", ":", " ">>,                         \* b:   (a space after the colon)
    <<" ", "a", ":", " ", "1">>,               \*  a: 1
    <<" ", "b", ":">>,                         \*  b:
    <<" ", " ", "a", ":", " ", "2">>,          \*   a: 2
    <<" ", "x">>,                              \*  x
    <<"x">>,                                   \* x
    <<>>,                                      \* (blank)
    <<"a", ":", " ", "b", ":", " ", "1">>,     \* a: b: 1
    <<"a", ":", " ", "|">> }                   \* a: |

Texts == UNION {[1..n -> LineSet] : n \in 1..MaxLines}

Strategies == {"last", "first", "all", "undefined"}

NoReturn == [kind |-> "none", entries |-> <<>>, map |-> <<>>, err |-> NoError]

NoMapped == [strategy |-> "", map |-> <<>>]

\* The state before the calls: the text is one of texts, options.strict one of
\* stricts; no other invocation of a parser is in flight.
InitWith(texts, stricts) ==
  /\ lines \in texts
  /\ strict \in stricts
  /\ pc = "v2"
  /\ v2 = InitV2
  /\ ret2 = [kind |-> "none", list |-> <<>>]
  /\ v1 = InitV1
  /\ ret1 = NoReturn
  /\ mapped = NoMapped
  /\ calls = <<>>

\* options.strict keeps its default, false.
Init == InitWith(Texts, {FALSE})

\* parseNymlV2: one iteration of the while loop.
V2Line ==
  /\ pc = "v2"
  /\ v2.i < Len(lines)
  /\ v2' = stepV2(v2, lines)
  /\ UNCHANGED <<lines, strict, pc, ret2, v1, ret1, mapped, calls>>

\* parseNymlV2: return result.
V2Return ==
  /\ pc = "v2"
  /\ v2.i >= Len(lines)
  /\ ret2' = [kind |-> "list", list |-> listValue(v2.items, v2.root)]
  /\ pc' = "v1"
  /\ UNCHANGED <<lines, strict, v2, v1, ret1, mapped, calls>>

\* V1Line recovering from a ParseError: the offending line is skipped and the
\* loop goes on, the error being reported at the end.
V1LineSkipping ==
  /\ pc = "v1"
  /\ v1.i < Len(lines)
  /\ LET after == stepV1(v1, lines)
     IN IF after.status = "error"
        THEN /\ v1' = [v1 EXCEPT !.i = @ + 1, !.err = after.err]
             /\ ret1' = [NoReturn EXCEPT !.kind = "error", !.err = after.err]
             /\ pc' = IF v1.i + 1 >= Len(lines) THEN "done" ELSE "v1"
        ELSE /\ v1' = after
             /\ UNCHANGED <<ret1, pc>>
  /\ UNCHANGED <<lines, strict, v2, ret2, mapped, calls>>

\* parseNyml: one iteration of the for loop; a ParseError ends the call.
V1Line ==
  /\ pc = "v1"
  /\ v1.i < Len(lines)
  /\ v1' = stepV1(v1, lines)
  /\ IF v1'.status = "error"
     THEN /\ ret1' = [NoReturn EXCEPT !.kind = "error", !.err = v1'.err]
          /\ pc' = "done"
     ELSE UNCHANGED <<ret1, pc>>
  /\ UNCHANGED <<lines, strict, v2, ret2, mapped, calls>>

\* parseNyml after the loop: the multiline block open at EOF is closed and the
\* document (asEntries) or the mapping is returned.
V1Return(asEntries) ==
  /\ pc = "v1"
  /\ v1.i >= Len(lines)
  /\ LET closed == closeAtEof(v1)
         entries == entriesValue(closed.ents, closed.root)
     IN /\ v1' = [closed EXCEPT !.status = "returned"]
        /\ ret1' = IF asEntries
                   THEN [NoReturn EXCEPT !.kind = "document", !.entries = entries]
                   ELSE [NoReturn EXCEPT !.kind = "mapping", !.map = entriesToMapping(entries)]
  /\ pc' = IF asEntries THEN "doc" ELSE "done"
  /\ UNCHANGED <<lines, strict, v2, ret2, mapped, calls>>

\* toMapping(document, strategy) on the document parseNyml returned.
ToMapping(strategy) ==
  /\ pc = "doc"
  /\ mapped' = [strategy |-> strategy, map |-> toMapping(ret1.entries, strategy)]
  /\ pc' = "done"
  /\ UNCHANGED <<lines, strict, v2, ret2, v1, ret1, calls>>

Next ==
  \/ V2Line
  \/ V2Return
  \/ V1Line
  \/ \E asEntries \in BOOLEAN : V1Return(asEntries)
  \/ \E strategy \in Strategies : ToMapping(strategy)

Spec == Init /\ [][Next]_vars

----------------------------------------------------------------------------
(* Texts of quoted-key lines.                                               *)

\* Longest text of quoted-key lines, in lines.
MaxKeyLines == 2

KeyLineSet ==
  { <<"\"", "a", ":", "b", "\"", ":", " ", "1">>,                  \* "a:b": 1
    <<" ", "\"", " ", "a", "\"", " ", ":", " ", "b", ":", "1">>,   \*  " a" : b:1
    <<"\"", "a", "\\", "\"", "b", "\"", ":", " ", "1">>,           \* "a\"b": 1
    <<"\"", "a", "\"", ":">>,                                      \* "a":
    <<"\"", "a">>,                                                 \* "a
    <<" ", "\"", "a">>,                                            \*  "a
    <<"\"", "a", "\"", " ", "1">>,                                 \* "a" 1
    <<"a", ":", " ", "|">>,                                        \* a: |
    <<"b", ":", " ", "1">> }                                       \* b: 1

TextsKeys == UNION {[1..n -> KeyLineSet] : n \in 1..MaxKeyLines}

InitKeys == InitWith(TextsKeys, {FALSE})

SpecKeys == InitKeys /\ [][Next]_vars

----------------------------------------------------------------------------
(* Texts with lines that parseNyml rejects, among comments, blank lines and *)
(* multiline blocks.                                                        *)

\* Longest text of rejected lines, in lines.
MaxErrLines == 4

ErrLineSet ==
  { <<"x">>,                      \* x
    <<" ", "x">>,                 \*  x
    <<"\"", "a">>,                \* "a
    <<"#", " ", "c">>,            \* # c
    <<>>,                         \* (blank)
    <<"a", ":", " ", "|">> }      \* a: |

TextsErr == UNION {[1..n -> ErrLineSet] : n \in 1..MaxErrLines}

InitErr == InitWith(TextsErr, {FALSE})

SpecErr == InitErr /\ [][Next]_vars

----------------------------------------------------------------------------
(* Texts of nested keys indented by spaces and by tabs, parsed with and     *)
(* without options.strict.                                                  *)

\* Longest text of indented lines, in lines.
MaxIndentLines == 3

IndentLineSet ==
  { <<"b", ":">>,                              \* b:
    <<"a", ":", " ", "1">>,                    \* a: 1
    <<" ", "a", ":", " ", "1">>,               \*  a: 1
    <<" ", " ", "a", ":", " ", "2">>,          \*   a: 2
    <<"\t", "a", ":", " ", "1">>,              \* (tab)a: 1
    <<" ", "\t", "a", ":", " ", "2">> }        \*  (tab)a: 2

TextsIndent == UNION {[1..n -> IndentLineSet] : n \in 1..MaxIndentLines}

InitIndent == InitWith(TextsIndent, BOOLEAN)

SpecIndent == InitIndent /\ [][Next]_vars

----------------------------------------------------------------------------
(* Texts that open with the header of a multiline block.                    *)

\* Most lines after the header of the block.
MaxBlockLines == 3

BlockHeaders ==
  { <<"a", ":", " ", "|">>,                    \* a: |
    <<" ", "a", ":", " ", "|">> }              \*  a: |

BlockLineSet ==
  { <<" ", " ", "x">>,                         \*   x
    <<" ", " ", " ", "y">>,                    \*    y
    <<" ", "b", ":", " ", "1">>,               \*  b: 1
    <<"b", ":", " ", "1">>,                    \* b: 1
    <<>>,                                      \* (blank)
    <<" ", " ", " ">> }                        \* (three spaces)

TextsBlock ==
  {<<h>> \o body : h \in BlockHeaders,
                   body \in UNION {[1..n -> BlockLineSet] : n \in 1..MaxBlockLines}}

InitBlock == InitWith(TextsBlock, {FALSE})

SpecBlock == InitBlock /\ [][Next]_vars

----------------------------------------------------------------------------
(* JSON to NYML converter: convert_json_to_nyml.js                          *)

Digits == {"0", "1", "2", "3", "4", "5", "6", "7", "8", "9"}

\* The characters of the class [a-zA-Z0-9._-].
PlainKeyChars ==
  Digits \cup {".", "_", "-"} \cup
  {"a", "b", "c", "d", "e", "f", "g", "h", "i", "j", "k", "l", "m",
   "n", "o", "p", "q", "r", "s", "t", "u", "v", "w", "x", "y", "z",
   "A", "B", "C", "D", "E", "F", "G", "H", "I", "J", "K", "L", "M",
   "N", "O", "P", "Q", "R", "S", "T", "U", "V", "W", "X", "Y", "Z"}

needsQuoting(key) ==
  \/ includes(key, " ")
  \/ includes(key, ":")
  \/ includes(key, "@")
  \/ (Len(key) > 0 /\ key[1] \in {"\"", "#"} \cup Digits)
  \/ ~(Len(key) > 0 /\ \A k \in 1..Len(key) : key[k] \in PlainKeyChars)

needsQuotingValue(value) ==
  \/ includes(value, " ")
  \/ includes(value, "\"")
  \/ includes(value, "'")
  \/ \E k \in 1..Len(value) : value[k] \in {"#", "@", ":", "$"}
  \/ (/\ Len(value) > 0 /\ value[1] \in Digits
      /\ (includes(value, "-") \/ includes(value, ".")))

\* A JSON object is the sequence of its [key, value] pairs in insertion order;
\* a value is a string or an object.
JsonString(s) == [t |-> "str", s |-> s, o |-> <<>>]

JsonObject(o) == [t |-> "obj", s |-> <<>>, o |-> o]

\* jsonToNyml(obj, indent) for an object whose values are strings or objects:
\* the lines of its NYML text.
RECURSIVE jsonToNyml(_, _)
jsonToNyml(obj, indent) ==
  LET indentStr == spaces(2 * indent)
      pushed(key, value) ==
        LET keyStr == IF needsQuoting(key) THEN <<"\"">> \o key \o <<"\"">> ELSE key
        IN IF value.t = "obj"
           THEN <<indentStr \o keyStr \o <<":">>>> \o jsonToNyml(value.o, indent + 1)
           ELSE IF includes(value.s, "\n")
           THEN LET split == SplitNL(value.s)
                    contentLines == IF split[Len(split)] = <<>>
                                    THEN SubSeq(split, 1, Len(split) - 1) ELSE split
                IN <<indentStr \o keyStr \o <<":", " ", "|">>>>
                     \o [k \in 1..Len(contentLines) |->
                           indentStr \o <<" ", " ">> \o contentLines[k]]
                     \o << <<>> >>
           ELSE LET valueStr == IF needsQuotingValue(value.s)
                                THEN <<"\"">> \o value.s \o <<"\"">> ELSE value.s
                IN <<indentStr \o keyStr \o <<":", " ">> \o valueStr>>
  IN concat([k \in 1..Len(obj) |-> pushed(obj[k].key, obj[k].value)])

\* The text the converter prints, lines.join('\n'), as parseNyml splits it.
jsonText(obj) == SplitNL(join(jsonToNyml(obj, 0)))

\* The JSON object as a mapping value of parseNyml.
RECURSIVE objectValue(_)
objectValue(obj) ==
  [key \in {obj[k].key : k \in 1..Len(obj)} |->
     LET v == obj[CHOOSE k \in 1..Len(obj) : obj[k].key = key].value
     IN IF v.t = "obj" THEN MapValue(objectValue(v.o)) ELSE StrValue(v.s)]

\* Largest JSON object, in keys at all depths together.
MaxJsonEntries == 2

JsonKeys == { <<"a">>, <<"a", ":", "b">> }

JsonStrings ==
  { <<"1">>,                       \* 1
    <<"b", " ", "c">>,             \* b c
    <<"a", ":", "b">>,             \* a:b
    <<"#", "c">>,                  \* #c
    <<"\"", "b", "\"">>,           \* "b"
    <<"x", "\n", "y", "\n">> }     \* x\ny\n

\* The JSON objects of exactly n keys, at all depths together, with distinct
\* keys in each object: a first pair, whose value is a string, the empty
\* object or an object of i keys, before an object of the keys that remain.
JsonObjectsOfSize[n \in 0..MaxJsonEntries] ==
  IF n = 0 THEN {<<>>}
  ELSE UNION {
         LET values == IF i = 0
                       THEN {JsonString(s) : s \in JsonStrings} \cup {JsonObject(<<>>)}
                       ELSE {JsonObject(o) : o \in JsonObjectsOfSize[i]}
             parts  == {t \in JsonKeys \X values \X JsonObjectsOfSize[n - 1 - i] :
                          \A k \in 1..Len(t[3]) : t[3][k].key # t[1]}
         IN {<<[key |-> t[1], value |-> t[2]]>> \o t[3] : t \in parts}
         : i \in 0..(n - 1)}

JsonObjects == UNION {JsonObjectsOfSize[n] : n \in 0..MaxJsonEntries}

TextsJson == {jsonText(obj) : obj \in JsonObjects}

InitJson == InitWith(TextsJson, {FALSE})

SpecJson == InitJson /\ [][Next]_vars

----------------------------------------------------------------------------
(* Texts with lines that start with #, at the root, under a key and inside *)
(* a multiline block.                                                       *)

\* Longest text of # lines, in lines.
MaxHashLines == 3

HashLineSet ==
  { <<"a", ":", " ", "|">>,                    \* a: |
    <<"b", ":">>,                              \* b:
    <<" ", "#", " ", "c">>,                    \*  # c
    <<"#", "a", ":", " ", "1">>,               \* #a: 1
    <<" ", "a", ":", " ", "#", "1">>,          \*  a: #1
    <<" ", "x">>,                              \*  x
    <<>> }                                     \* (blank)

TextsHash == UNION {[1..n -> HashLineSet] : n \in 1..MaxHashLines}

InitHash == InitWith(TextsHash, {FALSE})

SpecHash == InitHash /\ [][Next]_vars

\* The same texts with the loop of parseNymlV2 running on: weak fairness of
\* V2Line and of V2Return.  ENABLED is written out as the condition of the
\* while loop, i < lines.length, and its negation: the loop body and the
\* return are not interrupted, so the iteration that can be taken is taken.
FairV2Line == []<>~(pc = "v2" /\ v2.i < Len(lines)) \/ []<><<V2Line>>_vars

FairV2Return == []<>~(pc = "v2" /\ v2.i >= Len(lines)) \/ []<><<V2Return>>_vars

SpecHashFair == SpecHash /\ FairV2Line /\ FairV2Return

----------------------------------------------------------------------------
(* Texts of nested keys: parents at indents 0 and 1, children at uneven     *)
(* steps, blank and whitespace-only lines, a plain line, a block.           *)

\* Longest text of nested keys, in lines.
MaxNestLines == 3

NestLineSet ==
  { <<"b", ":">>,                                  \* b:
    <<" ", "b", ":">>,                             \*  b:
    <<" ", " ", "a", ":", " ", "1">>,              \*   a: 1
    <<" ", " ", " ", " ", "a", ":", " ", "1">>,    \*     a: 1
    <<" ", "a", ":", " ", "1">>,                   \*  a: 1
    <<"a", ":", " ", "1">>,                        \* a: 1
    <<>>,                                          \* (blank)
    <<" ", " ">>,                                  \* (two spaces)
    <<" ", "x">>,                                  \*  x
    <<"a", ":", " ", "|">> }                       \* a: |

TextsNest == UNION {[1..n -> NestLineSet] : n \in 1..MaxNestLines}

InitNest == InitWith(TextsNest, {FALSE})

SpecNest == InitNest /\ [][Next]_vars

----------------------------------------------------------------------------
(* Several invocations of the parsers in flight.  Every variable of          *)
(* parseNyml (lines, rootEntries, stack, multiline) and of parseNymlV2       *)
(* (lines, result, stack, i) is declared inside the function, so each        *)
(* invocation has its own: calls[c] holds those of invocation c.  The        *)
(* invocations advance line by line in any order, and a slot whose           *)
(* invocation has returned or raised starts another one.                     *)

\* Longest text of an invocation, in lines.
MaxCallLines == 2

\* The invocations in flight at a time.
NumCalls == 2

CallLineSet ==
  { <<"b", ":">>,                     \* b:
    <<" ", "a", ":", " ", "|">>,      \*  a: |
    <<"x">> }                         \* x

TextsCalls == UNION {[1..n -> CallLineSet] : n \in 1..MaxCallLines}

\* freshCall starting the invocation with the stack the invocation before it
\* in the slot has left.
freshCallKeepingStack(parser, text, before) ==
  [parser |-> parser, text |-> text, status |-> "run",
   v1 |-> [InitV1 EXCEPT !.stack = before.v1.stack],
   v2 |-> [InitV2 EXCEPT !.stack = before.v2.stack]]

\* The invocation parser(text) at its entry: the declarations at the top of
\* parseNyml and of parseNymlV2.  before is the invocation that ran before it
\* in the slot; nothing of it is read.
freshCall(parser, text, before) ==
  [parser |-> parser, text |-> text, status |-> "run", v1 |-> InitV1, v2 |-> InitV2]

\* No invocation before.
NoCall == [parser |-> "", text |-> <<>>, status |-> "", v1 |-> InitV1, v2 |-> InitV2]

Parsers == {"parseNyml", "parseNymlV2"}

InitCalls ==
  /\ lines = <<>>
  /\ strict = FALSE
  /\ pc = "done"
  /\ v2 = InitV2
  /\ ret2 = [kind |-> "none", list |-> <<>>]
  /\ v1 = InitV1
  /\ ret1 = NoReturn
  /\ mapped = NoMapped
  /\ calls \in [1..NumCalls -> {freshCall(p, t, NoCall) : p \in Parsers, t \in TextsCalls}]

\* Invocation c runs one iteration of its loop; parseNyml may raise.
CallLine(c) ==
  LET call == calls[c]
  IN /\ call.status = "run"
     /\ IF call.parser = "parseNyml"
        THEN /\ call.v1.i < Len(call.text)
             /\ LET after == stepV1(call.v1, call.text)
                IN calls' = [calls EXCEPT ![c].v1 = after,
                                          ![c].status = IF after.status = "error"
                                                        THEN "raised" ELSE "run"]
        ELSE /\ call.v2.i < Len(call.text)
             /\ calls' = [calls EXCEPT ![c].v2 = stepV2(call.v2, call.text)]
     /\ UNCHANGED <<lines, strict, pc, v2, ret2, v1, ret1, mapped>>

\* Invocation c leaves its loop and returns.
CallReturn(c) ==
  LET call == calls[c]
  IN /\ call.status = "run"
     /\ IF call.parser = "parseNyml"
        THEN /\ call.v1.i >= Len(call.text)
             /\ calls' = [calls EXCEPT ![c].v1 = [closeAtEof(call.v1) EXCEPT !.status = "returned"],
                                       ![c].status = "returned"]
        ELSE /\ call.v2.i >= Len(call.text)
             /\ calls' = [calls EXCEPT ![c].status = "returned"]
     /\ UNCHANGED <<lines, strict, pc, v2, ret2, v1, ret1, mapped>>

\* The invocation of slot c has returned or raised; another one starts there.
CallAgain(c) ==
  /\ calls[c].status \in {"returned", "raised"}
  /\ \E p \in Parsers, t \in TextsCalls : calls' = [calls EXCEPT ![c] = freshCall(p, t, calls[c])]
  /\ UNCHANGED <<lines, strict, pc, v2, ret2, v1, ret1, mapped>>

NextCalls ==
  \/ \E c \in 1..NumCalls : CallLine(c)
  \/ \E c \in 1..NumCalls : CallReturn(c)
  \/ \E c \in 1..NumCalls : CallAgain(c)

SpecCalls == InitCalls /\ [][NextCalls]_vars

----------------------------------------------------------------------------
(* Properties                                                              *)

Max(S) == CHOOSE x \in S : \A y \in S : y <= x

\* The n-th smallest element of a set of numbers.
Nth(S, n) == CHOOSE x \in S : Cardinality({y \in S : y <= x}) = n

KeysOf(entries) == {entries[k].key : k \in 1..Len(entries)}

IndexesOf(entries, key) == {k \in 1..Len(entries) : entries[k].key = key}

\* C1: whenever parseNyml returns, the mapping it returns by default is the
\* mapping toMapping(document, 'last') gives for the document the same parse
\* returns with asEntries, at every nesting depth.
C1_DefaultEqualsCollapseLast ==
  /\ ret1.kind = "mapping" =>
       ret1.map = toMapping(entriesValue(v1.ents, v1.root), "last")
  /\ (ret1.kind = "document" /\ mapped.strategy = "last") =>
       mapped.map = entriesToMapping(ret1.entries)

\* A default parse of a text with a nested object holding a duplicated key.
C1_Witness ==
  /\ ret1.kind = "mapping"
  /\ Len(v1.ents) = 3
  /\ v1.ents[1].children = <<2, 3>>
  /\ v1.ents[2].key = v1.ents[3].key
  /\ v1.ents[2].value # v1.ents[3].value

\* The line parseNyml handles next makes an entry: it is not collected into the
\* open multiline block, is neither blank nor a comment, and raises no error.
MakesEntry(st, ls) ==
  LET raw == ls[st.i + 1]
  IN /\ ~(st.multiline.open
          /\ (trim(raw) = <<>> \/ leadingSpaces(raw) > st.multiline.indent))
     /\ trim(raw) # <<>>
     /\ ~startsWith(trimStart(raw), "#")
     /\ splitKeyValue(raw, trimStart(raw)).code = ""

\* C2: a content line outside a multiline block appends exactly one Entry, for
\* that line, at the end of one container and leaves every other container and
\* the key and line of every earlier entry as they were; any other step adds
\* no entry and changes no container.
C2_EntryAppended ==
  [][ LET n == Len(v1.ents)
      IN IF pc = "v1" /\ v1.i < Len(lines) /\ MakesEntry(v1, lines)
         THEN /\ Len(v1'.ents) = n + 1
              /\ v1'.ents[n + 1].line = v1.i + 1
              /\ v1'.ents[n + 1].raw = lines[v1.i + 1]
              /\ v1'.ents[n + 1].children = <<>>
              /\ \E c \in 0..n :
                   /\ containerV1(v1', c) = Append(containerV1(v1, c), n + 1)
                   /\ \A d \in (0..n) \ {c} : containerV1(v1', d) = containerV1(v1, d)
              /\ \A e \in 1..n : /\ v1'.ents[e].key = v1.ents[e].key
                                 /\ v1'.ents[e].line = v1.ents[e].line
         ELSE /\ Len(v1'.ents) = n
              /\ \A d \in 0..n : containerV1(v1', d) = containerV1(v1, d)
    ]_vars

\* The document of a: 1 / b: 1 / a: 2 has been returned: three root entries,
\* the third repeating the key of the first.
C2_Witness ==
  /\ ret1.kind = "document"
  /\ Len(ret1.entries) = 3
  /\ ret1.entries[1].key = ret1.entries[3].key
  /\ ret1.entries[1].key # ret1.entries[2].key
  /\ ret1.entries[1].has_value /\ ret1.entries[2].has_value /\ ret1.entries[3].has_value
  /\ ret1.entries[1].value # ret1.entries[3].value
  /\ ret1.entries[1].line = 1 /\ ret1.entries[2].line = 2 /\ ret1.entries[3].line = 3

\* m is the mapping that gives each key of entries the value of its first
\* (which = "first") or last (which = "last") entry, at every depth.
RECURSIVE IsCollapse(_, _, _)
IsCollapse(entries, m, which) ==
  /\ DOMAIN m = KeysOf(entries)
  /\ \A key \in KeysOf(entries) :
       LET e == entries[IF which = "first" THEN Min(IndexesOf(entries, key))
                        ELSE Max(IndexesOf(entries, key))]
       IN IF e.has_children
          THEN m[key].t = "map" /\ IsCollapse(e.children, m[key].m, which)
          ELSE m[key] = StrValue(e.value)

RECURSIVE IsCollapseAll(_, _)
IsCollapseAll(entries, m) ==
  /\ DOMAIN m = KeysOf(entries)
  /\ \A key \in KeysOf(entries) :
       LET idxs == IndexesOf(entries, key)
       IN /\ m[key].t = "arr"
          /\ Len(m[key].a) = Cardinality(idxs)
          /\ \A n \in 1..Cardinality(idxs) :
               LET e == entries[Nth(idxs, n)]
                   val == m[key].a[n]
               IN IF e.has_children
                  THEN val.t = "map" /\ IsCollapseAll(e.children, val.m)
                  ELSE val = StrValue(e.value)

NextNonBlank(ls, n) ==
  IF \E m \in (n+1)..Len(ls) : trim(ls[m]) # <<>>
  THEN Min({m \in (n+1)..Len(ls) : trim(ls[m]) # <<>>})
  ELSE 0

\* No more-indented line follows line n, in the indentation of V1.
NothingIndentedAfterV1(ls, n) ==
  NextNonBlank(ls, n) = 0
  \/ leadingSpaces(ls[NextNonBlank(ls, n)]) <= leadingSpaces(ls[n])

\* C5: in V1 a key line with an empty value that no more-indented line follows
\* yields an empty-string scalar, in the entry and in the mapping, not an
\* empty children container.
C5_EmptyValueIsScalar ==
  ret1.kind \in {"document", "mapping"} =>
    \A k \in 1..Len(v1.ents) :
      LET e == v1.ents[k]
      IN (/\ splitKeyValue(e.raw, trimStart(e.raw)).valuePart = <<>>
          /\ NothingIndentedAfterV1(lines, e.line)) =>
           /\ ~e.has_children
           /\ e.has_value /\ e.value = <<>>
           /\ (/\ ret1.kind = "mapping"
               /\ \E j \in IndexesOf(entriesValue(v1.ents, v1.root), e.key) :
                    /\ v1.root[j] = k
                    /\ j = Max(IndexesOf(entriesValue(v1.ents, v1.root), e.key)))
              => ret1.map[e.key] = StrValue(<<>>)

\* The line is a key line with an empty value, as parseNymlV2 reads it.
EmptyKeyLine(ls, n) ==
  LET kv == parseKeyValue(trim(ls[n])) IN kv.has /\ kv.value = <<>>

\* No more-indented line follows line n, in the indentation of V2.
NothingIndentedAfterV2(ls, n) ==
  NextNonBlank(ls, n) = 0
  \/ leadingSpacesV2(ls[NextNonBlank(ls, n)]) <= leadingSpacesV2(ls[n])

\* C6 as stated: in V2 a key line with an empty value and no more-indented
\* content after it makes parseNymlV2 raise an error.
C6_DanglingKeyRaises ==
  (/\ ret2.kind # "none"
   /\ \E id \in 1..Len(v2.items) :
        EmptyKeyLine(lines, v2.src[id]) /\ NothingIndentedAfterV2(lines, v2.src[id]))
  => ret2.kind = "error"

\* C6 as amended: in V2 a key line with an empty value and no more-indented
\* content after it is accepted; parseNymlV2 returns, and the item of that line
\* is a keyed item whose value is the empty list.
C6_DanglingKeyIsEmptyList ==
  ret2.kind # "none" =>
    /\ ret2.kind = "list"
    /\ \A id \in 1..Len(v2.items) :
         (EmptyKeyLine(lines, v2.src[id]) /\ NothingIndentedAfterV2(lines, v2.src[id])) =>
           v2.items[id].t = "list" /\ v2.items[id].list = <<>>

\* parseNymlV2 has returned for a text whose last line is a key with an empty
\* value, after an item at the same indent.
C6_Witness ==
  /\ ret2.kind = "list"
  /\ Len(lines) = 2
  /\ Len(ret2.list) = 2
  /\ EmptyKeyLine(lines, 2)
  /\ ret2.list[2].t = "list" /\ ret2.list[2].list = <<>>

\* The non-blank lines (1-based) the main loop of parseNymlV2 handles from
\* index i on: all but those inside a multiline block.
RECURSIVE itemLinesFrom(_, _)
itemLinesFrom(ls, i) ==
  IF i >= Len(ls) THEN {}
  ELSE IF trim(ls[i + 1]) = <<>> THEN itemLinesFrom(ls, i + 1)
  ELSE LET kv == parseKeyValue(trim(ls[i + 1]))
       IN IF kv.has /\ kv.value = <<"|">>
          THEN {i + 1} \cup itemLinesFrom(ls, collectEnd(ls, i + 1, leadingSpacesV2(ls[i + 1])))
          ELSE {i + 1} \cup itemLinesFrom(ls, i + 1)

ItemLines(ls) == itemLinesFrom(ls, 0)

\* For each item line m of ls, the key line whose list receives it: the most
\* recent earlier empty-valued key line P, less indented than m, such that
\* every item line between P and m is more indented than P; 0 (the root) when
\* there is none.
ParentLinesV2(ls) ==
  LET IL     == ItemLines(ls)
      indent == [m \in 1..Len(ls) |-> leadingSpacesV2(ls[m])]
      opens  == {P \in IL : EmptyKeyLine(ls, P)}
  IN [m \in IL |->
        LET cands == {P \in opens :
                        /\ P < m
                        /\ indent[P] < indent[m]
                        /\ \A q \in IL : (P < q /\ q < m) => indent[q] > indent[P]}
        IN IF cands = {} THEN 0 ELSE Max(cands)]

\* C7: in V2 the item of a key line with an empty value (spaces after the colon
\* included) is a keyed item whose value is a list, never a string, with one
\* element for each item line that belongs to that key; a key followed by
\* more-indented lines, even a single one, has a non-empty list.
C7_EmptyValueYieldsList ==
  ret2.kind = "list" =>
    LET parent == ParentLinesV2(lines)
    IN \A id \in 1..Len(v2.items) :
         EmptyKeyLine(lines, v2.src[id]) =>
           /\ v2.items[id].t = "list"
           /\ Len(v2.items[id].list) =
                Cardinality({m \in DOMAIN parent : parent[m] = v2.src[id]})
           /\ \A k \in 1..Len(v2.items[id].list) :
                parent[v2.src[v2.items[id].list[k]]] = v2.src[id]
           /\ ~NothingIndentedAfterV2(lines, v2.src[id]) => Len(v2.items[id].list) >= 1

\* parseNymlV2 has returned for a key with only a space after the colon followed
\* by exactly one more-indented line: the value is a one-element list.
C7_Witness ==
  /\ ret2.kind = "list"
  /\ Len(lines) = 2
  /\ lines[1] = <<"b", ":", " ">>
  /\ Len(ret2.list) = 1
  /\ ret2.list[1].t = "list"
  /\ Len(ret2.list[1].list) = 1

\* C8: in parseNymlV2 every list, the root included, holds its items in
\* source-line order, each item in exactly one place; and when the parse
\* returns every keyed item line has exactly one item of its own, with the key
\* of that line, whether or not the key repeats.
C8_V2OrderKept ==
  LET n == Len(v2.items)
      holders(id) == {c \in 0..n : \E k \in 1..Len(containerV2(v2, c)) : containerV2(v2, c)[k] = id}
  IN /\ Len(v2.src) = n
     /\ \A c \in 0..n :
          \A k \in 1..(Len(containerV2(v2, c)) - 1) :
            v2.src[containerV2(v2, c)[k]] < v2.src[containerV2(v2, c)[k + 1]]
     /\ \A id \in 1..n : Cardinality(holders(id)) = 1
     /\ ret2.kind = "list" =>
          LET keyed == {m \in ItemLines(lines) : parseKeyValue(trim(lines[m])).has}
          IN /\ \A m \in keyed :
                  /\ Cardinality({id \in 1..n : v2.src[id] = m}) = 1
                  /\ \A id \in 1..n :
                       v2.src[id] = m =>
                         /\ v2.items[id].t # "plain"
                         /\ v2.items[id].key = parseKeyValue(trim(lines[m])).key
             /\ Cardinality({id \in 1..n : v2.items[id].t # "plain"}) = Cardinality(keyed)

\* parseNymlV2 has returned two root items with the same key, the second a
\* list that holds a plain string.
C8_Witness ==
  /\ ret2.kind = "list"
  /\ Len(ret2.list) = 2
  /\ ret2.list[1].key = ret2.list[2].key
  /\ ret2.list[1].t = "str" /\ ret2.list[1].text = <<"1">>
  /\ ret2.list[2].t = "list"
  /\ Len(ret2.list[2].list) = 1
  /\ ret2.list[2].list[1].t = "plain"

\* Position (1-based) of the first colon of a line that has one.
FirstColon(s) == Min({k \in 1..Len(s) : s[k] = ":"})

BeforeColon(s) == trim(SubSeq(s, 1, FirstColon(s) - 1))

AfterColon(s) == trim(SubSeq(s, FirstColon(s) + 1, Len(s)))

C10_PlainLineAtRootDropped ==
  [][ (/\ pc = "v2" /\ v2.i < Len(lines)
       /\ trim(lines[v2.i + 1]) # <<>>
       /\ ~parseKeyValue(trim(lines[v2.i + 1])).has) =>
        LET m == v2.i + 1
            P == ParentLinesV2(lines)[m]
            n == Len(v2.items)
        IN /\ leadingSpacesV2(lines[m]) = 0 => P = 0
           /\ IF P = 0
              THEN v2'.items = v2.items /\ v2'.root = v2.root
              ELSE /\ v2'.root = v2.root
                   /\ \E c \in 1..n :
                        /\ v2.src[c] = P
                        /\ v2'.items = Append([v2.items EXCEPT ![c].list = Append(@, n + 1)],
                                              PlainItem(trim(lines[m])))
    ]_vars

\* parseNymlV2 has handled x / b: / (space)x: the first line, at the root, left
\* nothing; the third is the plain string of the list of b.
C10_Witness ==
  /\ v2.i = 3
  /\ lines = << <<"x">>, <<"b", ":", " ">>, <<" ", "x">> >>
  /\ Len(v2.items) = 2
  /\ v2.root = <<1>>
  /\ v2.items[1].list = <<2>>
  /\ v2.items[2] = PlainItem(<<"x">>)

\* Position (1-based) of the second double quote of t, 0 when there is none.
SecondQuote(t) ==
  IF \E k \in 2..Len(t) : t[k] = "\"" THEN Min({k \in 2..Len(t) : t[k] = "\""}) ELSE 0

\* Position of the colon that follows position q of t with only spaces between,
\* 0 when there is none.
ColonAfter(t, q) ==
  IF \E c \in (q+1)..Len(t) : t[c] = ":" /\ \A j \in (q+1)..(c-1) : t[j] = " "
  THEN Min({c \in (q+1)..Len(t) : t[c] = ":"})
  ELSE 0

\* t has the form "K": V, K holding no double quote.
IsQuotedForm(t) ==
  startsWith(t, "\"") /\ SecondQuote(t) # 0 /\ ColonAfter(t, SecondQuote(t)) # 0

QuotedK(t) == SubSeq(t, 2, SecondQuote(t) - 1)

QuotedV(t) == trim(SubSeq(t, ColonAfter(t, SecondQuote(t)) + 1, Len(t)))

RECURSIVE EscEnd(_, _)
EscEnd(t, j) ==
  IF j > Len(t) THEN 0
  ELSE IF t[j] = "\\" /\ j + 1 <= Len(t) THEN EscEnd(t, j + 2)
  ELSE IF t[j] = "\"" THEN j
  ELSE EscEnd(t, j + 1)

\* t without the backslashes that escape a character.
RECURSIVE Unescape(_)
Unescape(t) ==
  IF Len(t) = 0 THEN <<>>
  ELSE IF t[1] = "\\" /\ Len(t) >= 2 THEN <<t[2]>> \o Unescape(SubSeq(t, 3, Len(t)))
  ELSE <<t[1]>> \o Unescape(Tail(t))

\* t is a quoted-key line whose key ends at an unescaped double quote that a
\* colon follows.
IsEscapedForm(t) ==
  startsWith(t, "\"") /\ EscEnd(t, 2) # 0 /\ ColonAfter(t, EscEnd(t, 2)) # 0

\* C12: a quoted key ends at its first unescaped double quote, a backslash
\* escaping the character after it: such a line raises no error, is a keyed
\* line in V2, and its key is the text up to that quote, escaped characters
\* included.
C12_EscapedQuoteDoesNotEndKey ==
  /\ ret1.kind = "error" => ~IsEscapedForm(trim(lines[ret1.err.line]))
  /\ \A k \in 1..Len(v1.ents) :
       LET e == v1.ents[k]
           t == trim(e.raw)
       IN IsEscapedForm(t) =>
            e.key \in {SubSeq(t, 2, EscEnd(t, 2) - 1), Unescape(SubSeq(t, 2, EscEnd(t, 2) - 1))}
  /\ \A id \in 1..Len(v2.items) :
       LET it == v2.items[id]
           t  == trim(lines[v2.src[id]])
       IN IsEscapedForm(t) =>
            /\ it.t # "plain"
            /\ it.key \in {SubSeq(t, 2, EscEnd(t, 2) - 1),
                           Unescape(SubSeq(t, 2, EscEnd(t, 2) - 1))}

\* The line opens a multiline block when parseNyml handles it as a content line.
OpensBlockV1(raw) ==
  /\ trim(raw) # <<>>
  /\ ~startsWith(trimStart(raw), "#")
  /\ splitKeyValue(raw, trimStart(raw)).code = ""
  /\ splitKeyValue(raw, trimStart(raw)).valuePart = <<"|">>

\* The lines (1-based) after line i that are outside every multiline block of
\* V1; blk is the indent of the block open at line i + 1, -1 when none is.
RECURSIVE ordinaryFromV1(_, _, _)
ordinaryFromV1(ls, i, blk) ==
  IF i >= Len(ls) THEN {}
  ELSE LET raw == ls[i + 1]
       IN IF blk >= 0 /\ (trim(raw) = <<>> \/ leadingSpaces(raw) > blk)
          THEN ordinaryFromV1(ls, i + 1, blk)
          ELSE {i + 1} \cup ordinaryFromV1(ls, i + 1,
                              IF OpensBlockV1(raw) THEN leadingSpaces(raw) ELSE -1)

OrdinaryLinesV1(ls) == ordinaryFromV1(ls, 0, -1)

\* t starts with a double quote that no second double quote closes.
QuoteUnmatched(t) == startsWith(t, "\"") /\ SecondQuote(t) = 0

\* t starts with a quoted key whose closing quote no colon follows.
QuoteWithoutColon(t) ==
  /\ startsWith(t, "\"") /\ SecondQuote(t) # 0
  /\ ~startsWith(trimStart(SubSeq(t, SecondQuote(t) + 1, Len(t))), ":")

\* C13: in V1 a line outside every multiline block whose first non-space
\* character is a double quote raises UNMATCHED_QUOTE when no second double
\* quote follows on the line, MISSING_COLON when the closing quote is not
\* followed, after optional spaces, by a colon, with the 1-based number of the
\* line; parseNyml never passes such a line, and raises neither for a line
\* that is well formed.
C13_QuotedKeyErrors ==
  \A n \in OrdinaryLinesV1(lines) :
    LET t == trimStart(lines[n])
    IN startsWith(t, "\"") =>
         /\ n <= v1.i => ~QuoteUnmatched(t) /\ ~QuoteWithoutColon(t)
         /\ (ret1.kind = "error" /\ ret1.err.line = n) =>
              /\ v1.i = n - 1
              /\ QuoteUnmatched(t) \/ QuoteWithoutColon(t)
              /\ QuoteUnmatched(t) => ret1.err.code = "UNMATCHED_QUOTE"
              /\ QuoteWithoutColon(t) => ret1.err.code = "MISSING_COLON"
         /\ (ret1.kind # "none" /\ (QuoteUnmatched(t) \/ QuoteWithoutColon(t))) =>
              ret1.kind = "error" /\ ret1.err.line <= n

\* parseNyml has raised UNMATCHED_QUOTE for line 2, the line that ends the
\* multiline block of line 1.
C13_Witness ==
  /\ ret1.kind = "error"
  /\ ret1.err = [code |-> "UNMATCHED_QUOTE", line |-> 2]
  /\ lines[1] = <<"a", ":", " ", "|">>
  /\ lines[2] = <<"\"", "a">>

\* parseNyml rejects the line when it handles it as a content line.
OffendingV1(raw) ==
  /\ trim(raw) # <<>>
  /\ ~startsWith(trimStart(raw), "#")
  /\ IF startsWith(trimStart(raw), "\"")
     THEN QuoteUnmatched(trimStart(raw)) \/ QuoteWithoutColon(trimStart(raw))
     ELSE \A k \in 1..Len(raw) : raw[k] # ":"

\* The rejected lines outside every multiline block, by their 1-based position
\* in the text.
BadLinesV1(ls) == {n \in OrdinaryLinesV1(ls) : OffendingV1(ls[n])}

\* C14: in V1 an unquoted line without a colon, outside every multiline block
\* and neither blank nor a comment, raises MISSING_COLON; when it is the first
\* rejected line of the text the error carries its 1-based position among all
\* lines of the text, blank, comment and multiline-content lines counted, and
\* a MISSING_COLON error never names a line that holds a colon outside a
\* quoted key.
C14_MissingColonLine ==
  /\ \A n \in BadLinesV1(lines) :
       ~startsWith(trimStart(lines[n]), "\"") =>
         /\ n > v1.i
         /\ (ret1.kind = "error" /\ ret1.err.line = n) =>
              ret1.err.code = "MISSING_COLON" /\ v1.i = n - 1
         /\ (ret1.kind # "none" /\ n = Min(BadLinesV1(lines))) =>
              ret1.kind = "error" /\ ret1.err = [code |-> "MISSING_COLON", line |-> n]
  /\ (ret1.kind = "error" /\ ret1.err.code = "MISSING_COLON") =>
       /\ ret1.err.line \in 1..Len(lines)
       /\ OffendingV1(lines[ret1.err.line])

\* parseNyml has raised MISSING_COLON for line 4, after a comment, the header
\* of a multiline block and a blank line inside that block.
C14_Witness ==
  /\ ret1.kind = "error"
  /\ ret1.err = [code |-> "MISSING_COLON", line |-> 4]
  /\ lines = << <<"#", " ", "c">>, <<"a", ":", " ", "|">>, <<>>, <<"x">> >>

\* C15: parseNyml raises for the first rejected line of the text and for no
\* other; when it raises it has handled no later line, returns neither a
\* document nor a mapping, and nothing happens after the error; a text with a
\* rejected line never returns a result.
C15_FirstErrorAborts ==
  /\ [](/\ ret1.kind = "error" =>
             /\ BadLinesV1(lines) # {}
             /\ ret1.err.line = Min(BadLinesV1(lines))
             /\ v1.i = ret1.err.line - 1
             /\ \A k \in 1..Len(v1.ents) : v1.ents[k].line < ret1.err.line
             /\ ret1.entries = <<>> /\ ret1.map = <<>>
             /\ mapped = NoMapped
             /\ pc = "done"
        /\ ret1.kind \in {"document", "mapping"} => BadLinesV1(lines) = {}
        /\ (pc = "v1" /\ BadLinesV1(lines) # {}) => v1.i < Min(BadLinesV1(lines)))
  /\ [][ret1.kind # "error"]_vars

\* parseNyml has raised for line 2 of a text whose lines 2 and 4 are rejected,
\* after making the entry of line 1.
C15_Witness ==
  /\ ret1.kind = "error"
  /\ ret1.err.line = 2
  /\ BadLinesV1(lines) = {2, 4}
  /\ Len(v1.ents) = 1

\* The number of leading space characters of s.
SpaceCount(s) ==
  IF \A k \in 1..Len(s) : s[k] = " " THEN Len(s)
  ELSE Min({k \in 1..Len(s) : s[k] # " "}) - 1

\* s is a key line indented by spaces only; its value is empty (a parent) or
\* not (a leaf).
SpaceKeyLine(s, parent) ==
  /\ \A k \in 1..Len(s) : s[k] # "\t"
  /\ \E k \in 1..Len(s) : s[k] = ":"
  /\ (AfterColon(s) = <<>>) = parent

\* Line n is a parent key and the two lines after it are leaves under it, the
\* first indented further than the second: siblings of unequal indentation.
UnevenSiblingLines(ls) ==
  \E n \in 1..(Len(ls) - 2) :
    /\ SpaceKeyLine(ls[n], TRUE)
    /\ SpaceKeyLine(ls[n + 1], FALSE)
    /\ SpaceKeyLine(ls[n + 2], FALSE)
    /\ SpaceCount(ls[n]) < SpaceCount(ls[n + 2])
    /\ SpaceCount(ls[n + 2]) < SpaceCount(ls[n + 1])

\* C16: for a text whose sibling lines differ in indentation, parseNyml raises
\* BAD_INDENT under strict: true and returns a result under strict: false.
C16_StrictRaisesBadIndent ==
  (ret1.kind # "none" /\ UnevenSiblingLines(lines)) =>
     IF strict
     THEN ret1.kind = "error" /\ ret1.err.code = "BAD_INDENT"
     ELSE ret1.kind \in {"document", "mapping"}

\* C17: the indentation either parser takes for a line is the number of its
\* leading space characters: in V1 the indent of the entry of the line and of
\* the stack frame a key with an empty value pushes, in V2 the indent of the
\* frame; a tab counts for nothing.
C17_IndentCountsSpacesOnly ==
  /\ \A k \in 1..Len(v1.ents) :
       v1.ents[k].indent = SpaceCount(lines[v1.ents[k].line])
  /\ \A f \in 2..Len(v1.stack) :
       v1.stack[f].indent = SpaceCount(lines[v1.ents[v1.stack[f].c].line]) + 1
  /\ \A f \in 2..Len(v2.stack) :
       v2.stack[f].indent = SpaceCount(lines[v2.src[v2.stack[f].c]])

\* s is the header of a multiline block: an unquoted key with the value |.
IsBlockHeader(s) == (\E k \in 1..Len(s) : s[k] = ":") /\ AfterColon(s) = <<"|">>

\* The line that ends the block of the header at line h: the first non-blank
\* line after h indented no more than the header; Len(ls) + 1 at end of input.
BlockEndLine(ls, h) ==
  LET stops == {n \in (h+1)..Len(ls) :
                  trim(ls[n]) # <<>> /\ SpaceCount(ls[n]) <= SpaceCount(ls[h])}
  IN IF stops = {} THEN Len(ls) + 1 ELSE Min(stops)

\* The lines of the block of the header at line h.
BlockLines(ls, h) == SubSeq(ls, h + 1, BlockEndLine(ls, h) - 1)

\* The position in the block of its last non-blank line, 0 when it has none.
LastNonBlank(block) ==
  IF \A k \in 1..Len(block) : trim(block[k]) = <<>> THEN 0
  ELSE Max({k \in 1..Len(block) : trim(block[k]) # <<>>})

\* value is made of the lines of block and of nothing else: line for line the
\* same text up to indentation, as far as the last non-blank line of the
\* block, and empty beyond it.
MadeOfBlock(value, block) ==
  LET pieces == SplitNL(value)
  IN /\ Len(pieces) >= LastNonBlank(block)
     /\ \A k \in 1..Len(pieces) :
          IF k <= LastNonBlank(block) THEN trim(pieces[k]) = trim(block[k])
          ELSE pieces[k] = <<>>

\* C18: in V1 and in V2 the block of a header at indent b is made of exactly
\* the lines up to, not including, the first non-blank line indented <= b, or
\* the end of input; blank lines of any indentation stay inside it; no line of
\* the block is handled as a line of its own, and the line that ends the
\* block is handled once as an ordinary line.
C18_BlockExtent ==
  /\ \A k \in 1..Len(v1.ents) :
       LET e == v1.ents[k]
           E == BlockEndLine(lines, e.line)
       IN IsBlockHeader(e.raw) =>
            /\ \A j \in 1..Len(v1.ents) : ~(e.line < v1.ents[j].line /\ v1.ents[j].line < E)
            /\ ~(ret1.kind = "error" /\ e.line < ret1.err.line /\ ret1.err.line < E)
            /\ e.has_value => MadeOfBlock(e.value, BlockLines(lines, e.line))
            /\ (v1.i >= E \/ ret1.kind \in {"document", "mapping"}) => e.has_value
            /\ (v1.i >= E /\ ~OffendingV1(lines[E])) =>
                 Cardinality({j \in 1..Len(v1.ents) : v1.ents[j].line = E}) = 1
            /\ (ret1.kind # "none" /\ E <= Len(lines) /\ OffendingV1(lines[E])) =>
                 ret1.kind = "error" /\ ret1.err.line = E
  /\ \A id \in 1..Len(v2.items) :
       LET it == v2.items[id]
           h  == v2.src[id]
           E  == BlockEndLine(lines, h)
       IN (it.t # "plain" /\ IsBlockHeader(lines[h])) =>
            /\ it.t = "str"
            /\ MadeOfBlock(it.text, BlockLines(lines, h))
            /\ v2.i >= E - 1
            /\ \A j \in 1..Len(v2.items) : ~(h < v2.src[j] /\ v2.src[j] < E)
            /\ (v2.i >= E /\ parseKeyValue(trim(lines[E])).has) =>
                 Cardinality({j \in 1..Len(v2.items) : v2.src[j] = E}) = 1

\* Both parsers have handled  a: | /   x / (blank) / b: 1 : the block holds
\* the line x and the blank line, and line 4 made an entry of its own.
C18_Witness ==
  /\ lines = << <<"a", ":", " ", "|">>, <<" ", " ", "x">>, <<>>, <<"b", ":", " ", "1">> >>
  /\ ret1.kind = "document"
  /\ Len(ret1.entries) = 2
  /\ ret1.entries[1].value = <<"x", "\n">>
  /\ ret1.entries[2].line = 4
  /\ Len(ret2.list) = 2
  /\ ret2.list[1].text = <<"x", "\n">>
  /\ v2.src = <<1, 4>>

\* The least indentation of the non-blank lines of block, 0 when it has none.
MinIndentOf(block) ==
  IF \A k \in 1..Len(block) : trim(block[k]) = <<>> THEN 0
  ELSE Min({SpaceCount(block[k]) : k \in {j \in 1..Len(block) : trim(block[j]) # <<>>}})

\* value holds, line for line as far as the last non-blank line of block, the
\* lines of block with n leading characters removed, blank lines empty.
DedentedBy(value, block, n) ==
  LET pieces == SplitNL(value)
  IN /\ Len(pieces) >= LastNonBlank(block)
     /\ \A k \in 1..LastNonBlank(block) :
          pieces[k] = IF trim(block[k]) = <<>> THEN <<>>
                      ELSE SubSeq(block[k], n + 1, Len(block[k]))

\* The multiline blocks closed so far, as [h, value]: the line of the header
\* and the value it got, in V1 and in V2.
ClosedBlocksV1 ==
  {[h |-> v1.ents[k].line, value |-> v1.ents[k].value] :
     k \in {j \in 1..Len(v1.ents) : IsBlockHeader(v1.ents[j].raw) /\ v1.ents[j].has_value}}

ClosedBlocksV2 ==
  {[h |-> v2.src[id], value |-> v2.items[id].text] :
     id \in {j \in 1..Len(v2.items) :
               v2.items[j].t = "str" /\ IsBlockHeader(lines[v2.src[j]])}}

FirstNonBlank(block) == Min({k \in 1..Len(block) : trim(block[k]) # <<>>})

ContentOfAll(block) ==
  LET dedented == [k \in 1..Len(block) |->
                     IF trim(block[k]) = <<>> THEN <<>>
                     ELSE SubSeq(block[k], MinIndentOf(block) + 1, Len(block[k]))]
  IN IF Len(dedented) > 0 /\ dedented[Len(dedented)] = <<>> THEN join(dedented)
     ELSE join(dedented) \o <<"\n">>

\* C21: the value of a block that has lines is all its lines, dedented and
\* joined by newlines, with one newline appended unless the last line is
\* blank: no line of the block is dropped, the blank lines at its end included.
C21_AllCollectedLinesKept ==
  \A blk \in ClosedBlocksV1 \cup ClosedBlocksV2 :
    Len(BlockLines(lines, blk.h)) > 0 =>
      blk.value = ContentOfAll(BlockLines(lines, blk.h))

\* A zero-indent content line, which closes every open block.
CloserLine == <<"b", ":", " ", "1">>

C24_SameStringAsV1 ==
  ret1.kind \in {"document", "mapping"} =>
    \A b1 \in ClosedBlocksV1 : \A b2 \in ClosedBlocksV2 :
      b1.h = b2.h => b1.value = b2.value

\* C25 as stated: collectMultiline run again, with base indent 0, on the lines
\* of the content of a block gives the same content.
C25_IdempotentAtBaseZero ==
  \A blk \in ClosedBlocksV2 :
    collectMultiline(SplitNL(blk.value), -1, 0).content = blk.value

\* C25 as amended: collectMultiline run again on the lines of the content of a
\* block gives the same content when its base indent is below that of every
\* line (-1); with base indent 0 the first non-blank line of the content that
\* starts at column 0 ends the block, and the content is cut there.
C25_IdempotentBelowZero ==
  \A blk \in ClosedBlocksV2 :
    LET again == SplitNL(blk.value)
        stops == {k \in 1..Len(again) : trim(again[k]) # <<>> /\ SpaceCount(again[k]) = 0}
    IN /\ collectMultiline(again, -1, -1).content = blk.value
       /\ collectMultiline(again, -1, -1).nextIdx = Len(again)
       /\ collectMultiline(again, -1, 0).nextIdx =
            IF stops = {} THEN Len(again) ELSE Min(stops) - 1

\* parseNymlV2 has closed the block of  a: | /    y / (blank) /   x , whose
\* content keeps an indented line, an empty line and a line at column 0.
C25_Witness ==
  /\ lines = << <<"a", ":", " ", "|">>, <<" ", " ", " ", "y">>, <<>>, <<" ", " ", "x">> >>
  /\ ret2.kind = "list"
  /\ ret2.list[1].text = <<" ", "y", "\n", "\n", "x", "\n">>

\* C22: in V1 a non-blank line inside a multiline block, more indented than
\* the header, is part of the value of the key whether or not it starts with #
\* or holds a colon: it makes no entry, raises no error, and the value holds
\* it, up to indentation, at its place.
C22_BlockLinesAreContent ==
  \A k \in 1..Len(v1.ents) :
    LET e == v1.ents[k]
    IN IsBlockHeader(e.raw) =>
         \A n \in (e.line + 1)..(BlockEndLine(lines, e.line) - 1) :
           trim(lines[n]) # <<>> =>
             /\ \A j \in 1..Len(v1.ents) : v1.ents[j].line # n
             /\ ~(ret1.kind = "error" /\ ret1.err.line = n)
             /\ e.has_value =>
                  /\ Len(SplitNL(e.value)) >= n - e.line
                  /\ trim(SplitNL(e.value)[n - e.line]) = trim(lines[n])

\* parseNyml has returned for  a: | /  # c /  x : the value of a holds the
\* line that starts with # and the line without a colon.
C22_Witness ==
  /\ lines = << <<"a", ":", " ", "|">>, <<" ", "#", " ", "c">>, <<" ", "x">> >>
  /\ ret1.kind = "document"
  /\ Len(ret1.entries) = 1
  /\ ret1.entries[1].value = <<"#", " ", "c", "\n", "x", "\n">>

\* raw is blank or a comment of V1.
IsNoOpLine(raw) == trim(raw) = <<>> \/ startsWith(trimStart(raw), "#")

\* The lines parseNyml reaches with no multiline block open.
ReachedClosedV1(ls) ==
  {n \in OrdinaryLinesV1(ls) :
     n = 1 \/ ((n - 1) \in OrdinaryLinesV1(ls) /\ ~OpensBlockV1(ls[n - 1]))}

\* ls without its lines of the set drop.
RECURSIVE WithoutLines(_, _, _)
WithoutLines(ls, drop, n) ==
  IF n > Len(ls) THEN <<>>
  ELSE (IF n \in drop THEN <<>> ELSE <<ls[n]>>) \o WithoutLines(ls, drop, n + 1)

\* The entries with their line numbers and raw text blanked, at every depth.
RECURSIVE Unnumbered(_)
Unnumbered(entries) ==
  [k \in 1..Len(entries) |->
     [entries[k] EXCEPT !.line = 0, !.children = Unnumbered(entries[k].children)]]

\* The document parseNyml returns for the text ls, as nested entries.
DocumentOf(ls) ==
  LET st == closeAtEof(runV1(InitV1, ls)) IN entriesValue(st.ents, st.root)

\* C29: in V1, with no multiline block open, a step on a blank line or on a
\* line whose first non-space character is # only moves to the next line; the
\* document of a text is the document of the text without those lines, line
\* numbers aside; and a # after the colon of a content line is part of the
\* value.
C29_CommentsAreNoOps ==
  /\ [](/\ ret1.kind \in {"document", "mapping"} =>
             LET drop == {n \in ReachedClosedV1(lines) : IsNoOpLine(lines[n])}
             IN Unnumbered(entriesValue(v1.ents, v1.root))
                  = Unnumbered(DocumentOf(WithoutLines(lines, drop, 1)))
        /\ \A k \in 1..Len(v1.ents) :
             LET e == v1.ents[k]
             IN /\ ~IsNoOpLine(e.raw)
                /\ (~e.quoted_key /\ AfterColon(e.raw) \notin {<<>>, <<"|">>}) =>
                     e.has_value /\ e.value = AfterColon(e.raw))
  /\ [][(/\ pc = "v1" /\ v1.i < Len(lines)
         /\ ~v1.multiline.open
         /\ IsNoOpLine(lines[v1.i + 1]))
        => (v1' = [v1 EXCEPT !.i = @ + 1] /\ ret1' = ret1 /\ pc' = pc)]_vars

\* parseNyml has returned for  b: / #a: 1 /  a: #1 : the comment at indent 0
\* left the entry of line 3 under b, with the value #1.
C29_Witness ==
  /\ lines = << <<"b", ":">>, <<"#", "a", ":", " ", "1">>, <<" ", "a", ":", " ", "#", "1">> >>
  /\ ret1.kind = "document"
  /\ Len(ret1.entries) = 1
  /\ Len(ret1.entries[1].children) = 1
  /\ ret1.entries[1].children[1].value = <<"#", "1">>
  /\ ret1.entries[1].children[1].line = 3

\* s with every # replaced by the letter h.
Renamed(s) == [k \in 1..Len(s) |-> IF s[k] = "#" THEN "h" ELSE s[k]]

\* The list with every # of its keys and strings replaced by h, at every depth.
RECURSIVE RenamedList(_)
RenamedList(list) ==
  [k \in 1..Len(list) |->
     [t |-> list[k].t, key |-> Renamed(list[k].key), text |-> Renamed(list[k].text),
      list |-> RenamedList(list[k].list)]]

\* The list parseNymlV2 returns for the text ls.
ListOf(ls) == LET st == runV2(InitV2, ls) IN listValue(st.items, st.root)

\* C30: parseNymlV2 treats # as it treats a letter: the list it returns for a
\* text is, with h written for #, the list it returns for the text with h
\* written for #; every item line that starts with # and holds a colon makes
\* a keyed item whose key starts with #.
C30_HashIsOrdinaryInV2 ==
  ret2.kind = "list" =>
    /\ RenamedList(ret2.list) = ListOf([n \in 1..Len(lines) |-> Renamed(lines[n])])
    /\ \A n \in ItemLines(lines) :
         (startsWith(trim(lines[n]), "#") /\ \E k \in 1..Len(lines[n]) : lines[n][k] = ":") =>
           \E id \in 1..Len(v2.items) :
             /\ v2.src[id] = n
             /\ v2.items[id].t # "plain"
             /\ startsWith(v2.items[id].key, "#")

\* parseNymlV2 has returned for  b: /  # c /  a: #1 : the list of b holds the
\* plain string # c and the item a with the value #1.
C30_Witness ==
  /\ ret2.kind = "list"
  /\ Len(ret2.list) = 1
  /\ Len(ret2.list[1].list) = 2
  /\ ret2.list[1].list[1] = PlainItem(<<"#", " ", "c">>)
  /\ ret2.list[1].list[2] = StrItem(<<"a">>, <<"#", "1">>)

\* C26: parsing the serialization of a parsed V2 list gives the list back:
\* parseNymlV2(serializeNymlV2(parseNymlV2(text))) equals parseNymlV2(text),
\* for lists with empty lists, empty multiline strings and quoted keys too.
C26_SerializeRoundTrips ==
  ret2.kind = "list" =>
    ListOf(SplitNL(serializeNymlV2(ret2.list, 0))) = ret2.list

\* C27: for every mapping M whose values are strings or nested mappings,
\* parseNyml of the text jsonToNyml gives for M returns a value equal to M,
\* string values with spaces, colons, # or quotes included.
C27_JsonRoundTrips ==
  ret1.kind \in {"mapping", "error"} =>
    \A obj \in JsonObjects :
      jsonText(obj) = lines =>
        ret1.kind = "mapping" /\ ret1.map = objectValue(obj)

\* value is written between one pair of double quotes.
IsQuotedValue(value) ==
  /\ Len(value) >= 2
  /\ value[1] = "\"" /\ value[Len(value)] = "\""
  /\ \A k \in 2..(Len(value) - 1) : value[k] # "\""

\* The value part of an entry line of V1: what follows the colon of the key.
ValuePartV1(raw) ==
  LET stripped == trimStart(raw)
  IN IF IsQuotedForm(stripped) THEN QuotedV(stripped) ELSE AfterColon(raw)

\* C28: in V1 a single-line value written between one pair of double quotes
\* is returned without the surrounding quotes.
C28_ValueQuotesStripped ==
  \A k \in 1..Len(v1.ents) :
    LET e == v1.ents[k]
    IN IsQuotedValue(ValuePartV1(e.raw)) =>
         /\ e.has_value
         /\ e.value = SubSeq(ValuePartV1(e.raw), 2, Len(ValuePartV1(e.raw)) - 1)

\* The blank and whitespace-only lines of ls outside every multiline block of
\* V2: those that follow no block header without a line ending its block
\* between them.
BlankOutsideV2(ls) ==
  {n \in 1..Len(ls) :
     /\ trim(ls[n]) = <<>>
     /\ ~\E h \in ItemLines(ls) :
           IsBlockHeader(ls[h]) /\ h < n /\ n < BlockEndLine(ls, h)}

\* C31: in parseNymlV2 a blank or whitespace-only line outside a multiline
\* block is a no-op: the step on it only moves to the next line, the list
\* returned for a text is the list returned for the text without those lines,
\* and a text of such lines only yields the empty list.
C31_BlankLinesAreNoOpsV2 ==
  /\ [](ret2.kind = "list" =>
          /\ ret2.list = ListOf(WithoutLines(lines, BlankOutsideV2(lines), 1))
          /\ (\A n \in 1..Len(lines) : trim(lines[n]) = <<>>) => ret2.list = <<>>)
  /\ [][(pc = "v2" /\ v2.i < Len(lines) /\ trim(lines[v2.i + 1]) = <<>>)
        => (/\ v2' = [v2 EXCEPT !.i = @ + 1]
            /\ ret2' = ret2 /\ pc' = pc)]_vars

\* parseNymlV2 has returned for  b: / (two spaces) /  x : the whitespace-only
\* line did not end the list of b, which holds the plain string x.
C31_Witness ==
  /\ lines = << <<"b", ":">>, <<" ", " ">>, <<" ", "x">> >>
  /\ ret2.kind = "list"
  /\ ret2.list = <<[ListItem(<<"b">>) EXCEPT !.list = <<PlainItem(<<"x">>)>>]>>

\* The content lines of V1: the lines outside every multiline block that are
\* neither blank nor comments.
ContentLinesV1(ls) == {n \in OrdinaryLinesV1(ls) : ~IsNoOpLine(ls[n])}

\* The line is a key line with an empty value, as parseNyml reads it.
EmptyKeyLineV1(ls, n) ==
  (\E k \in 1..Len(ls[n]) : ls[n][k] = ":") /\ ValuePartV1(ls[n]) = <<>>

\* For each content line m of V1, the key line whose children receive it: the
\* most recent earlier empty-valued key line P, less indented than m, such
\* that every content line between P and m is more indented than P; 0 (the
\* root) when there is none.
ParentLinesV1(ls) ==
  LET CL     == ContentLinesV1(ls)
      indent == [m \in 1..Len(ls) |-> SpaceCount(ls[m])]
      opens  == {P \in CL : EmptyKeyLineV1(ls, P)}
  IN [m \in CL |->
        LET cands == {P \in opens :
                        /\ P < m
                        /\ indent[P] < indent[m]
                        /\ \A q \in CL : (P < q /\ q < m) => indent[q] > indent[P]}
        IN IF cands = {} THEN 0 ELSE Max(cands)]

\* The line of the entry whose children hold entry id of V1; 0 for the root.
HolderLineV1(id) ==
  IF \E k \in 1..Len(v1.root) : v1.root[k] = id THEN 0
  ELSE v1.ents[CHOOSE c \in 1..Len(v1.ents) :
                 \E k \in 1..Len(v1.ents[c].children) : v1.ents[c].children[k] = id].line

\* The line of the item whose list holds item id of V2; 0 for the result list.
HolderLineV2(id) ==
  IF \E k \in 1..Len(v2.root) : v2.root[k] = id THEN 0
  ELSE v2.src[CHOOSE c \in 1..Len(v2.items) :
                \E k \in 1..Len(v2.items[c].list) : v2.items[c].list[k] = id]

\* C34: in both parsers the container that receives a content line L is that
\* of the most recent earlier empty-valued key line P with indent(P) <
\* indent(L) such that every content line between P and L is more indented
\* than P, the root when there is none; each entry and item is held by exactly
\* one container.
C34_ParentIsNearestOpenKey ==
  LET content1 == ContentLinesV1(lines)
      parents1 == ParentLinesV1(lines)
      items2   == ItemLines(lines)
      parents2 == ParentLinesV2(lines)
  IN /\ \A id \in 1..Len(v1.ents) :
          /\ v1.ents[id].line \in content1
          /\ HolderLineV1(id) = parents1[v1.ents[id].line]
          /\ Cardinality({c \in 1..Len(v1.ents) :
                            \E k \in 1..Len(v1.ents[c].children) : v1.ents[c].children[k] = id})
               = IF \E k \in 1..Len(v1.root) : v1.root[k] = id THEN 0 ELSE 1
     /\ \A id \in 1..Len(v2.items) :
          /\ v2.src[id] \in items2
          /\ HolderLineV2(id) = parents2[v2.src[id]]
          /\ Cardinality({c \in 1..Len(v2.items) :
                            \E k \in 1..Len(v2.items[c].list) : v2.items[c].list[k] = id})
               = IF \E k \in 1..Len(v2.root) : v2.root[k] = id THEN 0 ELSE 1

\* Both parsers have returned for  b: /     a: 1 /   a: 1 : the two lines,
\* indented by four and by two, are both children of b.
C34_Witness ==
  /\ lines = << <<"b", ":">>, <<" ", " ", " ", " ", "a", ":", " ", "1">>,
                <<" ", " ", "a", ":", " ", "1">> >>
  /\ ret1.kind = "document"
  /\ Len(ret1.entries) = 1 /\ Len(ret1.entries[1].children) = 2
  /\ Len(ret2.list) = 1 /\ Len(ret2.list[1].list) = 2

\* Every entry of the list, at every depth, has exactly one of value and
\* children: a value and no children when its line has a value, | included,
\* children and no value when the value on its line is empty.
RECURSIVE OneOfValueAndChildren(_)
OneOfValueAndChildren(entries) ==
  \A k \in 1..Len(entries) :
    LET e == entries[k]
    IN /\ e.has_value # e.has_children
       /\ e.has_value = (ValuePartV1(e.raw) # <<>>)
       /\ e.has_value => e.children = <<>>
       /\ OneOfValueAndChildren(e.children)

C36_OpenBlockFreezesParse ==
  /\ [](/\ v1.multiline.open =>
             /\ v1.multiline.entry = Len(v1.ents)
             /\ IsBlockHeader(v1.ents[v1.multiline.entry].raw)
             /\ ~v1.ents[v1.multiline.entry].has_value
        /\ v1.status = "returned" =>
             /\ ~v1.multiline.open
             /\ \A k \in 1..Len(v1.ents) :
                  IsBlockHeader(v1.ents[k].raw) => v1.ents[k].has_value)
  /\ [][(v1.multiline.open /\ v1' # v1) =>
          IF v1'.multiline.open /\ v1'.multiline.entry = v1.multiline.entry
          THEN /\ v1'.ents = v1.ents /\ v1'.root = v1.root /\ v1'.stack = v1.stack
               /\ v1'.i = v1.i + 1
               /\ Len(v1'.multiline.rawLines) = Len(v1.multiline.rawLines) + 1
          ELSE v1'.ents[v1.multiline.entry].has_value]_vars

\* parseNyml is at the end of  a: | /   a: 1 / (blank)  with the block open:
\* two lines are collected, the key line among them, and a is the only entry.
C36_Witness ==
  /\ lines = << <<"a", ":", " ", "|">>, <<" ", " ", "a", ":", " ", "1">>, <<>> >>
  /\ pc = "v1" /\ v1.i = 3
  /\ v1.multiline.open /\ Len(v1.multiline.rawLines) = 2
  /\ Len(v1.ents) = 1 /\ Len(v1.stack) = 1

\* C37: parseNymlV2 is total: once it has left its loop it has returned a
\* list, and a line it reaches with an unmatched opening quote, or with a
\* quoted key that no colon follows, is read as a line without a colon: it
\* makes one plain string, the trimmed line, in the list of its parent key,
\* and nothing at the root.
C37_V2NeverRaises ==
  LET items2   == ItemLines(lines)
      parents2 == ParentLinesV2(lines)
  IN /\ ret2.kind \in {"none", "list"}
     /\ pc # "v2" => ret2.kind = "list" /\ v2.i = Len(lines)
     /\ \A n \in items2 :
          (/\ n <= v2.i
           /\ (QuoteUnmatched(trim(lines[n])) \/ QuoteWithoutColon(trim(lines[n])))) =>
            LET made == {id \in 1..Len(v2.items) : v2.src[id] = n}
            IN IF parents2[n] = 0 THEN made = {}
               ELSE /\ Cardinality(made) = 1
                    /\ \A id \in made :
                         /\ v2.items[id] = PlainItem(trim(lines[n]))
                         /\ HolderLineV2(id) = parents2[n]

\* parseNymlV2 has returned for  "a": /  "a : the line with the unmatched
\* quote is a plain string in the list of a.
C37_Witness ==
  /\ lines = << <<"\"", "a", "\"", ":">>, <<" ", "\"", "a">> >>
  /\ ret2.kind = "list"
  /\ ret2.list = <<[ListItem(<<"a">>) EXCEPT !.list = <<PlainItem(<<"\"", "a">>)>>]>>

\* C38: parseNymlV2 terminates: whenever its loop can run, the iteration
\* moves the line index forward, by one line or, for a key: | line, to an index
\* past the header and at most the number of lines; its pop loop leaves a
\* non-empty prefix of the stack; and the function eventually returns its list.
C38_V2Terminates ==
  /\ [](/\ v2.i <= Len(lines)
        /\ (pc = "v2" /\ v2.i < Len(lines)) =>
             LET after  == stepV2(v2, lines)
                 popped == popV2(v2.stack, leadingSpacesV2(lines[v2.i + 1]))
             IN /\ v2.i < after.i /\ after.i <= Len(lines)
                /\ (after.i = v2.i + 1 \/ IsBlockHeader(lines[v2.i + 1]))
                /\ Len(popped) >= 1 /\ Len(popped) <= Len(v2.stack)
                /\ popped = SubSeq(v2.stack, 1, Len(popped)))
  /\ <>(ret2.kind = "list")

\* parseNymlV2 has returned for  a: | /  x / (blank)  after one iteration that
\* moved the index from the header to the end of the text.
C38_Witness ==
  /\ lines = << <<"a", ":", " ", "|">>, <<" ", "x">>, <<>> >>
  /\ ret2.kind = "list"
  /\ Len(v2.items) = 1 /\ v2.i = 3

\* The values of the entries of the key at every depth, in source order: an
\* entry before its children, its children before the entry that follows it.
RECURSIVE DeepValues(_, _)
DeepValues(entries, key) ==
  IF Len(entries) = 0 THEN <<>>
  ELSE (IF entries[1].key = key THEN <<valueOrEmpty(entries[1])>> ELSE <<>>)
         \o DeepValues(entries[1].children, key)
         \o DeepValues(Tail(entries), key)

\* C33: getAll(document, key) returns, in source order, the values of all the
\* entries of the key, those nested in children as well as those at the root;
\* getFirst and getLast return the first and the last of them, null when
\* there is none.
C33_GetAllSearchesNested ==
  ret1.kind = "document" =>
    \A key \in {<<"a">>, <<"b">>, <<"c">>} :
      LET deep == DeepValues(ret1.entries, key)
      IN /\ getAll(ret1.entries, key) = deep
         /\ getFirst(ret1.entries, key) = IF Len(deep) = 0 THEN Null ELSE Some(deep[1])
         /\ getLast(ret1.entries, key) = IF Len(deep) = 0 THEN Null ELSE Some(deep[Len(deep)])

\* C39: in both parsers the indentation stack is never empty: its bottom
\* frame is the root frame, of indent 0 in V1 and -1 in V2, no other frame is
\* a root frame, and the container of the top frame exists.
C39_RootFrameStays ==
  /\ Len(v1.stack) >= 1
  /\ v1.stack[1] = [c |-> 0, indent |-> 0]
  /\ \A f \in 2..Len(v1.stack) : v1.stack[f].c \in 1..Len(v1.ents)
  /\ Len(v2.stack) >= 1
  /\ v2.stack[1] = [c |-> 0, indent |-> -1]
  /\ \A f \in 2..Len(v2.stack) : v2.stack[f].c \in 1..Len(v2.items)

\* Both parsers are done with  b: /  b: / a: 1 : the two frames pushed above
\* the root frame are popped by the third line and the root frame is left.
C39_Witness ==
  /\ lines = << <<"b", ":">>, <<" ", "b", ":">>, <<"a", ":", " ", "1">> >>
  /\ ret1.kind = "mapping"
  /\ Len(v1.ents) = 3 /\ Len(v1.stack) = 1
  /\ Len(v2.items) = 3 /\ Len(v2.stack) = 1

\* id is among the ids of the sequence ids.
Holds(ids, id) == \E k \in 1..Len(ids) : ids[k] = id

\* C40: in both parsers, after every line, the indents of the frames on the
\* stack increase strictly from bottom to top, and each frame above the root
\* frame holds the children (V1) or the list (V2) of an entry that the
\* container of the frame directly below holds.
C40_StackIsNestedChain ==
  /\ \A f \in 2..Len(v1.stack) :
       /\ v1.stack[f].indent > v1.stack[f - 1].indent
       /\ v1.ents[v1.stack[f].c].has_children
       /\ Holds(containerV1(v1, v1.stack[f - 1].c), v1.stack[f].c)
  /\ \A f \in 2..Len(v2.stack) :
       /\ v2.stack[f].indent > v2.stack[f - 1].indent
       /\ v2.items[v2.stack[f].c].t = "list"
       /\ Holds(containerV2(v2, v2.stack[f - 1].c), v2.stack[f].c)

\* Both parsers have read  b: /  b: /     a: 1 : three frames are on each
\* stack, the frame of the inner b above that of the outer b.
C40_Witness ==
  /\ lines = << <<"b", ":">>, <<" ", "b", ":">>,
                <<" ", " ", " ", " ", "a", ":", " ", "1">> >>
  /\ pc = "v1" /\ v1.i = 3
  /\ Len(v1.stack) = 3 /\ Len(v2.stack) = 3
  /\ v1.stack[3].c = 2 /\ v2.stack[3].c = 2

\* C32: a parse keeps no state across calls: whatever ran before it and
\* whatever runs between its lines, an invocation that has returned holds the
\* state and the result of the same parse run alone on its text, an
\* invocation of parseNyml that has raised holds the error of the parse run
\* alone, and a step of one invocation changes no other.
C32_CallsAreIsolated ==
  /\ [](\A c \in 1..Len(calls) :
          LET call == calls[c]
          IN /\ (call.parser = "parseNyml" /\ call.status = "returned") =>
                  LET alone == runV1(InitV1, call.text)
                  IN /\ alone.status # "error"
                     /\ call.v1 = [closeAtEof(alone) EXCEPT !.status = "returned"]
             /\ (call.parser = "parseNyml" /\ call.status = "raised") =>
                  call.v1 = runV1(InitV1, call.text) /\ call.v1.status = "error"
             /\ (call.parser = "parseNymlV2" /\ call.status = "returned") =>
                  call.v2 = runV2(InitV2, call.text)
             /\ call.parser = "parseNymlV2" => call.status # "raised")
  /\ [][\A c, d \in 1..Len(calls) :
          (c # d /\ calls'[c] # calls[c]) => calls'[d] = calls[d]]_vars

\* parseNyml has returned in slot 1 for  b: /  a: |  while parseNymlV2, in
\* slot 2, is between the two lines of the same text.
C32_Witness ==
  /\ Len(calls) = 2
  /\ calls[1].parser = "parseNyml" /\ calls[1].status = "returned"
  /\ calls[1].text = << <<"b", ":">>, <<" ", "a", ":", " ", "|">> >>
  /\ Len(calls[1].v1.ents) = 2 /\ calls[1].v1.ents[2].has_value
  /\ calls[2].parser = "parseNymlV2" /\ calls[2].status = "run"
  /\ calls[2].text = calls[1].text /\ calls[2].v2.i = 1

====
